---------------------------- MODULE Spec2Model ----------------------------
(***************************************************************************)
(* Bilhetinho API: the event/room lifecycle and the note exchange, as the  *)
(* route handlers of src/routes implement them over the shared store.      *)
(*                                                                         *)
(* The store is the database: one variable per table, each a set of rows.  *)
(* Row ids are uuid4 values in the code; here they are drawn from per-table*)
(* counters, so an id is never used twice.                                 *)
(*                                                                         *)
(* The specifications share the handlers:                                  *)
(*   Spec          tenants, admins, events and rooms; every handler runs   *)
(*                 from its first statement to its last commit in one step *)
(*   SpecEvents    the life of events, one of them without establishment   *)
(*   SpecSupersede events created over events, users and notes in them     *)
(*   SpecNotes     notes over a store that holds two events                *)
(*   SpecRooms     users, notes and the legacy room routes                 *)
(*   SpecDelete    the master's moves and deletes over users and notes     *)
(*   SpecConc      create_event interleaved at its statements and commits  *)
(*   SpecConcCodes create_event interleaved, the code draws only           *)
(*   SpecConcNotes create_note interleaved at its count and its commit     *)
(*   SpecCreate    create_event at the limits of its table count           *)
(*   SpecTables    the tables of events through the life of their rooms    *)
(*   SpecInbox     notes sent, answered and listed between two tables      *)
(*   SpecActivate  the legacy room routes beside the rooms of two events   *)
(*   SpecMessages  notes with messages at the limits of their length       *)
(*   SpecValidate  codes validated in any casing                           *)
(*   SpecMaster    the master's admin routes beside an event in use        *)
(*   SpecTokens    admin tokens while the master moves and deletes admins  *)
(*   SpecFrame     delete_establishment beside rooms in use                *)
(*   SpecCascade   delete_establishment statement by statement             *)
(*   SpecConcRespond accept_note and ignore_note interleaved               *)
(*   SpecConcAdmins  create_admin_user and update_admin_user interleaved   *)
(*   SpecLive      create_event with the generator's loop, under fairness  *)
(***************************************************************************)
EXTENDS Integers, Sequences, FiniteSets, TLC

VARIABLES
    establishments,  \* set of Establishment ids
    admins,          \* set of AdminUser rows
    events,          \* set of Event rows
    rooms,           \* set of Room rows
    tables,          \* set of Table rows
    users,           \* set of User rows
    notes,           \* set of Note rows
    nextId,          \* per table, the next fresh id
    now,             \* datetime.utcnow()
    resp,            \* the response to the most recent request
    deactivated,     \* history: ids of the events deactivate_event has deactivated
    reqs             \* requests in flight (SpecConc*): worker -> handler position and locals

store == <<establishments, admins, events, rooms, tables, users, notes, nextId>>
vars == <<establishments, admins, events, rooms, tables, users, notes, nextId,
          now, resp, deactivated, reqs>>

---------------------------------------------------------------------------
\* Bounds of the model.
MaxEst == 2
MaxAdmins == 2
MaxEvents == 2
MaxStrayRooms == 1
MaxCodes == 2
MaxTime == 3
MaxUsers == 1
MaxNotes == 3

\* Program constants.
MAX_NOTES_PER_USER == 2
MIN_TABLES == 1
MAX_TABLES == 100
CODE_LEN == 6
MIN_MESSAGE_LEN == 1
MAX_MESSAGE_LEN == 140

SENT == "sent"
ACCEPTED == "accepted"
IGNORED == "ignored"

---------------------------------------------------------------------------
\* Codes: strings of CODE_LEN characters.  The generator's draws are bounded
\* to MaxCodes codes, each one character repeated.
CodeChars == <<"A", "7", "Z", "Q", "3">>
LowerOf == [c \in {"A", "7", "Z", "Q", "3", "a", "z", "q"} |->
              CASE c = "a" -> "a" [] c = "z" -> "z" [] c = "q" -> "q"
                [] c = "A" -> "a" [] c = "Z" -> "z" [] c = "Q" -> "q"
                [] OTHER -> c]
UpperOf == [c \in {"A", "7", "Z", "Q", "3", "a", "z", "q"} |->
              CASE c = "a" -> "A" [] c = "z" -> "Z" [] c = "q" -> "Q"
                [] OTHER -> c]

\* string.ascii_uppercase + string.digits
CodeAlphabet ==
    {"A", "B", "C", "D", "E", "F", "G", "H", "I", "J", "K", "L", "M", "N", "O", "P",
     "Q", "R", "S", "T", "U", "V", "W", "X", "Y", "Z",
     "0", "1", "2", "3", "4", "5", "6", "7", "8", "9"}

MkCode(c) == [i \in 1..CODE_LEN |-> c]
Codes == {MkCode(CodeChars[i]) : i \in 1..MaxCodes}
\* code.upper() left out: the code compared as the client wrote it.
upperNone(s) == s
upper(s) == [i \in 1..Len(s) |-> UpperOf[s[i]]]
lower(s) == [i \in 1..Len(s) |-> LowerOf[s[i]]]

NoRow == [id |-> 0]
\* Query.first(): one of the matching rows (no ORDER BY: whichever the
\* database returns first), or None.
First(rows) == IF rows = {} THEN {NoRow} ELSE rows

Usernames == {"u1", "u2"}

Response(op, status, detail, arg, out) ==
    [op |-> op, status |-> status, detail |-> detail, arg |-> arg, out |-> out]
NoResp == Response("none", 0, "", <<>>, 0)

---------------------------------------------------------------------------
\* get_current_admin without the establishment test (lines 56-58).
get_current_adminById(tok) == {a \in admins : a.id = tok.admin_id}

\* get_current_admin: the token's admin exists and still belongs to the
\* token's establishment.
get_current_admin(tok) ==
    {a \in admins : a.id = tok.admin_id
                    /\ a.establishment_id = tok.establishment_id}

\* generate_event_code with the retry on an existing code (lines 75-76) left out.
generate_event_codeAny(evs) == Codes

\* generate_event_code: a code no event in the store has.
generate_event_code(evs) == Codes \ {e.code : e \in evs}

\* The table loop run over range(number_of_tables): numbers from 0.
NewTablesFromZero(room_id, first_id, n) ==
    {[id |-> first_id + i - 1, room_id |-> room_id, number |-> i - 1] : i \in 1..n}

NewTables(room_id, first_id, n) ==
    {[id |-> first_id + i - 1, room_id |-> room_id, number |-> i] : i \in 1..n}


---------------------------------------------------------------------------
\* Master routes (src/routes/master.py).  The master token check is the
\* excluded auth collaborator: these handlers run with a valid master token.

create_establishment ==
    /\ nextId.est <= MaxEst
    /\ establishments' = establishments \cup {nextId.est}
    /\ nextId' = [nextId EXCEPT !.est = @ + 1]
    /\ resp' = Response("create_establishment", 200, "", <<>>, nextId.est)
    /\ UNCHANGED <<admins, events, rooms, tables, users, notes, now, deactivated, reqs>>

create_admin_user(username, est_id) ==
    LET status == IF est_id \notin establishments THEN 404
                  ELSE IF \E a \in admins : a.username = username THEN 400
                  ELSE 200
    IN  /\ status = 200 => nextId.admin <= MaxAdmins
        /\ IF status = 200
           THEN /\ admins' = admins \cup {[id |-> nextId.admin, username |-> username,
                                           establishment_id |-> est_id]}
                /\ nextId' = [nextId EXCEPT !.admin = @ + 1]
           ELSE UNCHANGED <<admins, nextId>>
        /\ resp' = Response("create_admin_user", status, "", <<username, est_id>>, 0)
        /\ UNCHANGED <<establishments, events, rooms, tables, users, notes, now,
                       deactivated, reqs>>

\* username and est_id are Optional: "" and 0 stand for None (both falsy in
\* the handler's tests).
update_admin_user(admin_id, username, est_id) ==
    LET found == {a \in admins : a.id = admin_id}
        admin == CHOOSE a \in found : TRUE
        rename == username # "" /\ username # admin.username
        move == est_id # 0 /\ est_id # admin.establishment_id
        status == IF found = {} THEN 404
                  ELSE IF rename /\ \E a \in admins : a.username = username THEN 400
                  ELSE IF move /\ est_id \notin establishments THEN 404
                  ELSE 200
    IN  /\ IF status = 200
           THEN /\ admins' = (admins \ {admin}) \cup
                       {[id |-> admin.id,
                         username |-> IF rename THEN username ELSE admin.username,
                         establishment_id |-> IF move THEN est_id
                                              ELSE admin.establishment_id]}
                /\ events' = IF move
                             THEN {IF e.establishment_id = admin.establishment_id
                                   THEN [e EXCEPT !.establishment_id = est_id]
                                   ELSE e : e \in events}
                             ELSE events
           ELSE UNCHANGED <<admins, events>>
        /\ resp' = Response("update_admin_user", status, "", <<admin_id, username, est_id>>, 0)
        /\ UNCHANGED <<establishments, rooms, tables, users, notes, nextId, now,
                       deactivated, reqs>>

\* delete_admin_user that takes the events of the admin's establishment
\* with the admin.
delete_admin_userCascade(admin_id) ==
    LET found == {a \in admins : a.id = admin_id}
    IN  /\ admins' = admins \ found
        /\ events' = {e \in events :
                        \A a \in found : a.establishment_id # e.establishment_id}
        /\ resp' = Response("delete_admin_user", IF found = {} THEN 404 ELSE 200, "",
                            <<admin_id>>, 0)
        /\ UNCHANGED <<establishments, rooms, tables, users, notes, nextId, now,
                       deactivated, reqs>>

delete_admin_user(admin_id) ==
    LET found == {a \in admins : a.id = admin_id}
    IN  /\ admins' = admins \ found
        /\ resp' = Response("delete_admin_user", IF found = {} THEN 404 ELSE 200, "",
                            <<admin_id>>, 0)
        /\ UNCHANGED <<establishments, events, rooms, tables, users, notes, nextId, now,
                       deactivated, reqs>>

\* delete_establishment with the User delete (line 235) left out.
delete_establishmentKeepUsers(est_id) ==
    LET event_codes == {e.code : e \in {e \in events : e.establishment_id = est_id}}
        gone == {r \in rooms : r.event_code \in event_codes}
        gone_ids == {r.id : r \in gone}
    IN  /\ IF est_id \in establishments
           THEN /\ notes' = {n \in notes : n.room_id \notin gone_ids}
                /\ users' = users
                /\ tables' = {t \in tables : t.room_id \notin gone_ids}
                /\ rooms' = rooms \ gone
                /\ events' = {e \in events : e.establishment_id # est_id}
                /\ admins' = {a \in admins : a.establishment_id # est_id}
                /\ establishments' = establishments \ {est_id}
                /\ deactivated' = deactivated \cap {e.id : e \in events'}
           ELSE UNCHANGED <<notes, users, tables, rooms, events, admins, establishments,
                            deactivated>>
        /\ resp' = Response("delete_establishment",
                            IF est_id \in establishments THEN 200 ELSE 404, "",
                            <<est_id>>, 0)
        /\ UNCHANGED <<nextId, now, reqs>>

\* delete_establishment with the Note delete (line 234) run without its
\* room filter.
delete_establishmentAllNotes(est_id) ==
    LET event_codes == {e.code : e \in {e \in events : e.establishment_id = est_id}}
        gone == {r \in rooms : r.event_code \in event_codes}
        gone_ids == {r.id : r \in gone}
    IN  /\ IF est_id \in establishments
           THEN /\ notes' = IF gone = {} THEN notes ELSE {}
                /\ users' = {u \in users : u.room_id \notin gone_ids}
                /\ tables' = {t \in tables : t.room_id \notin gone_ids}
                /\ rooms' = rooms \ gone
                /\ events' = {e \in events : e.establishment_id # est_id}
                /\ admins' = {a \in admins : a.establishment_id # est_id}
                /\ establishments' = establishments \ {est_id}
                /\ deactivated' = deactivated \cap {e.id : e \in events'}
           ELSE UNCHANGED <<notes, users, tables, rooms, events, admins, establishments,
                            deactivated>>
        /\ resp' = Response("delete_establishment",
                            IF est_id \in establishments THEN 200 ELSE 404, "",
                            <<est_id>>, 0)
        /\ UNCHANGED <<nextId, now, reqs>>

delete_establishment(est_id) ==
    LET event_codes == {e.code : e \in {e \in events : e.establishment_id = est_id}}
        gone == {r \in rooms : r.event_code \in event_codes}
        gone_ids == {r.id : r \in gone}
    IN  /\ IF est_id \in establishments
           THEN /\ notes' = {n \in notes : n.room_id \notin gone_ids}
                /\ users' = {u \in users : u.room_id \notin gone_ids}
                /\ tables' = {t \in tables : t.room_id \notin gone_ids}
                /\ rooms' = rooms \ gone
                /\ events' = {e \in events : e.establishment_id # est_id}
                /\ admins' = {a \in admins : a.establishment_id # est_id}
                /\ establishments' = establishments \ {est_id}
                /\ deactivated' = deactivated \cap {e.id : e \in events'}
           ELSE UNCHANGED <<notes, users, tables, rooms, events, admins, establishments,
                            deactivated>>
        /\ resp' = Response("delete_establishment",
                            IF est_id \in establishments THEN 200 ELSE 404, "",
                            <<est_id>>, 0)
        /\ UNCHANGED <<nextId, now, reqs>>

---------------------------------------------------------------------------
\* Admin routes (src/routes/admin.py).

\* EventsAfterInsert writing the negated is_active to the establishment's
\* events instead of False to the active ones.
EventsAfterInsertToggle(evs, dirty, id, code, est_id, start, end, n) ==
    {IF e.establishment_id = est_id THEN [e EXCEPT !.is_active = ~e.is_active] ELSE e
     : e \in evs}
    \cup {[id |-> id, code |-> code, establishment_id |-> est_id,
           start_date |-> start, end_date |-> end, number_of_tables |-> n,
           is_active |-> TRUE]}

\* The three commits of create_event, as store transformations.  dirty is the
\* set of event ids the handler's UPDATE marked inactive.
EventsAfterInsert(evs, dirty, id, code, est_id, start, end, n) ==
    {IF e.id \in dirty THEN [e EXCEPT !.is_active = FALSE] ELSE e : e \in evs}
    \cup {[id |-> id, code |-> code, establishment_id |-> est_id,
           start_date |-> start, end_date |-> end, number_of_tables |-> n,
           is_active |-> TRUE]}

\* The UPDATE's filter with the establishment test (line 142) left out.
ActiveOfAnyEstablishment(evs, est_id) == {e.id : e \in {e \in evs : e.is_active}}

ActiveOf(evs, est_id) ==
    {e.id : e \in {e \in evs : e.is_active /\ e.establishment_id = est_id}}

\* create_event with the table-count test (lines 136-137) left out.
CreateEventStatusNoCountTest(tok, start, end, n) ==
    IF get_current_admin(tok) = {} THEN 401
    ELSE IF start >= end THEN 400
    ELSE 200

\* create_event with the table-count test of the suite: at most 50 tables.
CreateEventStatusMax50(tok, start, end, n) ==
    IF get_current_admin(tok) = {} THEN 401
    ELSE IF start >= end THEN 400
    ELSE IF n < MIN_TABLES \/ n > 50 THEN 400
    ELSE 200

CreateEventStatus(tok, start, end, n) ==
    IF get_current_admin(tok) = {} THEN 401
    ELSE IF start >= end THEN 400
    ELSE IF n < MIN_TABLES \/ n > MAX_TABLES THEN 400
    ELSE 200

create_event(tok, start, end, n, code) ==
    LET status == CreateEventStatus(tok, start, end, n)
        est_id == tok.establishment_id
    IN  /\ status = 200 => /\ nextId.event <= MaxEvents
                           /\ code \in generate_event_code(events)
        /\ status # 200 => code = MkCode("A")
        /\ IF status = 200
           THEN /\ events' = EventsAfterInsert(events, ActiveOf(events, est_id),
                                               nextId.event, code, est_id, start, end, n)
                /\ rooms' = rooms \cup {[id |-> nextId.room, event_code |-> code,
                                         is_active |-> TRUE]}
                /\ tables' = tables \cup NewTables(nextId.room, nextId.table, n)
                /\ nextId' = [nextId EXCEPT !.event = @ + 1, !.room = @ + 1,
                                            !.table = @ + n]
           ELSE UNCHANGED <<events, rooms, tables, nextId>>
        /\ resp' = Response("create_event", status, "", <<tok.admin_id, start, end, n>>,
                            IF status = 200 THEN nextId.event ELSE 0)
        /\ UNCHANGED <<establishments, admins, users, notes, now, deactivated, reqs>>

\* deactivate_event with the establishment test (lines 257-261) left out.
deactivate_eventNoOwnerTest(tok, event_id, room) ==
    LET found == {e \in events : e.id = event_id}
        event == CHOOSE e \in found : TRUE
        status == IF get_current_admin(tok) = {} THEN 401
                  ELSE IF found = {} THEN 404
                  ELSE 200
    IN  /\ IF status = 200
           THEN room \in First({r \in rooms : r.event_code = event.code})
           ELSE room = NoRow
        /\ IF status = 200
           THEN /\ events' = (events \ found) \cup {[event EXCEPT !.is_active = FALSE]}
                /\ rooms' = {IF r.id = room.id THEN [r EXCEPT !.is_active = FALSE] ELSE r
                             : r \in rooms}
                /\ deactivated' = deactivated \cup {event_id}
           ELSE UNCHANGED <<events, rooms, deactivated>>
        /\ resp' = Response("deactivate_event", status, "", <<tok.admin_id, event_id>>, 0)
        /\ UNCHANGED <<establishments, admins, tables, users, notes, nextId, now, reqs>>

\* room is what Room.event_code == event.code .first() returned.
deactivate_event(tok, event_id, room) ==
    LET found == {e \in events : e.id = event_id}
        event == CHOOSE e \in found : TRUE
        status == IF get_current_admin(tok) = {} THEN 401
                  ELSE IF found = {} THEN 404
                  ELSE IF event.establishment_id # tok.establishment_id THEN 403
                  ELSE 200
    IN  /\ IF status = 200
           THEN room \in First({r \in rooms : r.event_code = event.code})
           ELSE room = NoRow
        /\ IF status = 200
           THEN /\ events' = (events \ found) \cup {[event EXCEPT !.is_active = FALSE]}
                /\ rooms' = {IF r.id = room.id THEN [r EXCEPT !.is_active = FALSE] ELSE r
                             : r \in rooms}
                /\ deactivated' = deactivated \cup {event_id}
           ELSE UNCHANGED <<events, rooms, deactivated>>
        /\ resp' = Response("deactivate_event", status, "", <<tok.admin_id, event_id>>, 0)
        /\ UNCHANGED <<establishments, admins, tables, users, notes, nextId, now, reqs>>

\* Event.created_at is datetime.utcnow() at the insert.  Events are inserted
\* in the order of their ids, so the id orders them as created_at does; the
\* same holds of Note.created_at and the ids of notes.
created_at(e) == e.id

RECURSIVE OldestFirst(_)
\* order_by(Event.created_at) without desc().
OldestFirst(evs) ==
    IF evs = {} THEN <<>>
    ELSE LET e == CHOOSE x \in evs : \A y \in evs : created_at(x) <= created_at(y)
         IN  <<e>> \o OldestFirst(evs \ {e})

RECURSIVE NewestFirst(_)
\* order_by(Event.created_at.desc()).all()
NewestFirst(evs) ==
    IF evs = {} THEN <<>>
    ELSE LET e == CHOOSE x \in evs : \A y \in evs : created_at(x) >= created_at(y)
         IN  <<e>> \o NewestFirst(evs \ {e})

\* The status read from is_active alone, the window not looked at.
EventStatusStored(e) == IF e.is_active THEN "active" ELSE "expired"

\* The status list_events and list_all_events report for an event.
EventStatus(e) ==
    IF e.is_active /\ e.start_date <= now /\ now <= e.end_date THEN "active"
    ELSE "expired"

list_events(tok) ==
    LET authed == get_current_admin(tok) # {}
        listed == NewestFirst({e \in events : e.establishment_id = tok.establishment_id})
    IN  /\ resp' = Response("list_events", IF authed THEN 200 ELSE 401, "",
                            <<tok.admin_id>>,
                            IF authed
                            THEN [i \in 1..Len(listed) |->
                                     [id |-> listed[i].id, code |-> listed[i].code,
                                      status |-> EventStatus(listed[i])]]
                            ELSE <<>>)
        /\ UNCHANGED <<store, now, deactivated, reqs>>

\* Master route GET /master/events; establishment_id 0 stands for None.
list_all_events(establishment_id) ==
    LET results == NewestFirst(IF establishment_id # 0
                               THEN {e \in events : e.establishment_id = establishment_id}
                               ELSE events)
    IN  /\ resp' = Response("list_all_events", 200, "", <<establishment_id>>,
                            [i \in 1..Len(results) |->
                                [id |-> results[i].id, code |-> results[i].code,
                                 establishment_id |-> results[i].establishment_id,
                                 status |-> EventStatus(results[i])]])
        /\ UNCHANGED <<store, now, deactivated, reqs>>

\* validate_event_code: the status, the detail and the room id it answers with
\* when Room.event_code == code.upper() .first() returned room.
ValidateOutcome(code, room) ==
    LET found == {e \in events : e.code = upper(code)}
        event == CHOOSE e \in found : TRUE
    IN  IF found = {} THEN <<404, "Invalid event code", 0>>
        ELSE IF ~(event.start_date <= now /\ now <= event.end_date)
             THEN IF now < event.start_date
                  THEN <<400, "Event has not started yet", 0>>
                  ELSE <<400, "Event has expired", 0>>
        ELSE IF room = NoRow THEN <<404, "Event room not found", 0>>
        ELSE <<200, "valid", room.id>>

validate_event_code(code, room) ==
    /\ room \in First({r \in rooms : r.event_code = upper(code)})
    /\ LET o == ValidateOutcome(code, room)
       IN  resp' = Response("validate_event_code", o[1], o[2], <<code>>, o[3])
    /\ UNCHANGED <<store, now, deactivated, reqs>>

---------------------------------------------------------------------------
\* Room routes (src/routes/rooms.py).

create_room(event_code) ==
    /\ nextId.room <= MaxEvents + MaxStrayRooms
    /\ Cardinality({r \in rooms : \A e \in events : e.code # r.event_code}) < MaxStrayRooms
    /\ rooms' = rooms \cup {[id |-> nextId.room, event_code |-> event_code,
                             is_active |-> FALSE]}
    /\ nextId' = [nextId EXCEPT !.room = @ + 1]
    /\ resp' = Response("create_room", 200, "", <<event_code>>, nextId.room)
    /\ UNCHANGED <<establishments, admins, events, tables, users, notes, now,
                   deactivated, reqs>>

\* activate_room without the update that deactivates every room first.
activate_roomKeepOthers(room_id) ==
    LET found == \E r \in rooms : r.id = room_id
    IN  /\ rooms' = IF found
                    THEN {IF r.id = room_id THEN [r EXCEPT !.is_active = TRUE] ELSE r
                          : r \in rooms}
                    ELSE rooms
        /\ resp' = Response("activate_room", IF found THEN 200 ELSE 404, "",
                            <<room_id>>, 0)
        /\ UNCHANGED <<establishments, admins, events, tables, users, notes, nextId, now,
                       deactivated, reqs>>

activate_room(room_id) ==
    LET found == \E r \in rooms : r.id = room_id
    IN  /\ rooms' = IF found
                    THEN {[r EXCEPT !.is_active = (r.id = room_id)] : r \in rooms}
                    ELSE rooms
        /\ resp' = Response("activate_room", IF found THEN 200 ELSE 404, "",
                            <<room_id>>, 0)
        /\ UNCHANGED <<establishments, admins, events, tables, users, notes, nextId, now,
                       deactivated, reqs>>

\* The client of the sequential specifications: it reads the response before
\* it sends its next request, and time passes between requests.
Return ==
    /\ resp # NoResp
    /\ resp' = NoResp
    /\ UNCHANGED <<store, now, deactivated, reqs>>

Ready == resp = NoResp

Tick ==
    /\ now < MaxTime
    /\ now' = now + 1
    /\ UNCHANGED <<store, resp, deactivated, reqs>>

---------------------------------------------------------------------------
\* User and note routes (src/routes/users.py, src/routes/notes.py).

TableById(table_id) == {t \in tables : t.id = table_id}
RoomById(room_id) == {r \in rooms : r.id = room_id}
RoomActive(room_id) == \E r \in rooms : r.id = room_id /\ r.is_active
\* The count of line 35 with a status filter: the notes still unanswered.
sent_countPending(table_id) ==
    Cardinality({n \in notes : n.from_table_id = table_id /\ n.status = SENT})

sent_count(table_id) == Cardinality({n \in notes : n.from_table_id = table_id})

create_user(table_id) ==
    LET found == TableById(table_id)
        table == CHOOSE t \in found : TRUE
        status == IF found = {} THEN 404
                  ELSE IF ~RoomActive(table.room_id) THEN 400
                  ELSE 200
    IN  /\ status = 200 => nextId.user <= MaxUsers
        /\ IF status = 200
           THEN /\ users' = users \cup {[id |-> nextId.user, table_id |-> table_id,
                                         room_id |-> table.room_id]}
                /\ nextId' = [nextId EXCEPT !.user = @ + 1]
           ELSE UNCHANGED <<users, nextId>>
        /\ resp' = Response("create_user", status, "", <<table_id>>, 0)
        /\ UNCHANGED <<establishments, admins, events, rooms, tables, notes, now,
                       deactivated, reqs>>

\* create_note with the same-table test (lines 32-33) left out.
CreateNoteStatusNoSelfCheck(from_table_id, to_table_id) ==
    LET from_found == TableById(from_table_id)
        to_found == TableById(to_table_id)
        from_table == CHOOSE t \in from_found : TRUE
        to_table == CHOOSE t \in to_found : TRUE
    IN  IF from_found = {} \/ to_found = {} THEN 404
        ELSE IF ~RoomActive(from_table.room_id) THEN 403
        ELSE IF from_table.room_id # to_table.room_id THEN 400
        ELSE IF sent_count(from_table_id) >= MAX_NOTES_PER_USER THEN 429
        ELSE 200

\* create_note with the quota test (lines 35-37) moved before the tests of
\* the room.
CreateNoteStatusQuotaFirst(from_table_id, to_table_id) ==
    LET from_found == TableById(from_table_id)
        to_found == TableById(to_table_id)
        from_table == CHOOSE t \in from_found : TRUE
        to_table == CHOOSE t \in to_found : TRUE
    IN  IF from_found = {} \/ to_found = {} THEN 404
        ELSE IF sent_count(from_table_id) >= MAX_NOTES_PER_USER THEN 429
        ELSE IF ~RoomActive(from_table.room_id) THEN 403
        ELSE IF from_table.room_id # to_table.room_id THEN 400
        ELSE IF from_table_id = to_table_id THEN 400
        ELSE 200

\* create_note with the same-room test (lines 29-30) left out.
CreateNoteStatusNoRoomCheck(from_table_id, to_table_id) ==
    LET from_found == TableById(from_table_id)
        to_found == TableById(to_table_id)
        from_table == CHOOSE t \in from_found : TRUE
    IN  IF from_found = {} \/ to_found = {} THEN 404
        ELSE IF ~RoomActive(from_table.room_id) THEN 403
        ELSE IF from_table_id = to_table_id THEN 400
        ELSE IF sent_count(from_table_id) >= MAX_NOTES_PER_USER THEN 429
        ELSE 200

\* create_note with the quota test (line 36) written > instead of >=.
CreateNoteStatusOffByOne(from_table_id, to_table_id) ==
    LET from_found == TableById(from_table_id)
        to_found == TableById(to_table_id)
        from_table == CHOOSE t \in from_found : TRUE
        to_table == CHOOSE t \in to_found : TRUE
    IN  IF from_found = {} \/ to_found = {} THEN 404
        ELSE IF ~RoomActive(from_table.room_id) THEN 403
        ELSE IF from_table.room_id # to_table.room_id THEN 400
        ELSE IF from_table_id = to_table_id THEN 400
        ELSE IF sent_count(from_table_id) > MAX_NOTES_PER_USER THEN 429
        ELSE 200

\* create_note up to its quota check: the status the request is answered with.
CreateNoteStatus(from_table_id, to_table_id) ==
    LET from_found == TableById(from_table_id)
        to_found == TableById(to_table_id)
        from_table == CHOOSE t \in from_found : TRUE
        to_table == CHOOSE t \in to_found : TRUE
    IN  IF from_found = {} \/ to_found = {} THEN 404
        ELSE IF ~RoomActive(from_table.room_id) THEN 403
        ELSE IF from_table.room_id # to_table.room_id THEN 400
        ELSE IF from_table_id = to_table_id THEN 400
        ELSE IF sent_count(from_table_id) >= MAX_NOTES_PER_USER THEN 429
        ELSE 200

\* Messages: strings of one character repeated, as long as asked.
Msg(k) == [i \in 1..k |-> "a"]
DefaultMessage == Msg(MIN_MESSAGE_LEN)

\* NoteCreate with max_length left out of the message field.
NoteCreateValidNoMax(message) == Len(message) >= MIN_MESSAGE_LEN

\* NoteCreate: message is Field(..., min_length=1, max_length=140).  A body
\* that fails it is answered 422 before create_note runs.
NoteCreateValid(message) ==
    Len(message) >= MIN_MESSAGE_LEN /\ Len(message) <= MAX_MESSAGE_LEN

NewNote(id, from_table_id, to_table_id, message) ==
    [id |-> id,
     room_id |-> (CHOOSE t \in tables : t.id = from_table_id).room_id,
     from_table_id |-> from_table_id, to_table_id |-> to_table_id,
     message |-> message,
     status |-> SENT]

create_note(from_table_id, to_table_id, message) ==
    LET status == IF ~NoteCreateValid(message) THEN 422
                  ELSE CreateNoteStatus(from_table_id, to_table_id)
    IN  /\ status = 200 => nextId.note <= MaxNotes
        /\ IF status = 200
           THEN /\ notes' = notes \cup {NewNote(nextId.note, from_table_id, to_table_id,
                                                message)}
                /\ nextId' = [nextId EXCEPT !.note = @ + 1]
           ELSE UNCHANGED <<notes, nextId>>
        /\ resp' = Response("create_note", status, "",
                            <<from_table_id, to_table_id, message>>,
                            IF status = 200 THEN nextId.note ELSE 0)
        /\ UNCHANGED <<establishments, admins, events, rooms, tables, users, now,
                       deactivated, reqs>>

\* accept_note / ignore_note with the status test (lines 70-71, 84-85) left out.
RespondStatusNoCheck(note_id) ==
    IF {n \in notes : n.id = note_id} = {} THEN 404 ELSE 200

\* accept_note and ignore_note differ only in the status they write.
RespondStatus(note_id) ==
    LET found == {n \in notes : n.id = note_id}
    IN  IF found = {} THEN 404
        ELSE IF (CHOOSE n \in found : TRUE).status # SENT THEN 400
        ELSE 200

respond(op, note_id, decision) ==
    LET status == RespondStatus(note_id)
    IN  /\ notes' = IF status = 200
                    THEN {IF n.id = note_id THEN [n EXCEPT !.status = decision] ELSE n
                          : n \in notes}
                    ELSE notes
        /\ resp' = Response(op, status, "", <<note_id>>, 0)
        /\ UNCHANGED <<establishments, admins, events, rooms, tables, users, nextId, now,
                       deactivated, reqs>>

\* accept_note writing the status of ignore_note.
accept_noteAsIgnore(note_id) == respond("accept_note", note_id, IGNORED)

accept_note(note_id) == respond("accept_note", note_id, ACCEPTED)
ignore_note(note_id) == respond("ignore_note", note_id, IGNORED)

\* The inbox without the status test of get_table_notes.
InboxOfAnyStatus(table_id) == {n \in notes : n.to_table_id = table_id}

\* The filters of the four note listings.
InboxOf(table_id) == {n \in notes : n.to_table_id = table_id /\ n.status = SENT}
AcceptedOf(table_id) == {n \in notes : n.to_table_id = table_id /\ n.status = ACCEPTED}
IgnoredOf(table_id) == {n \in notes : n.to_table_id = table_id /\ n.status = IGNORED}
SentBy(table_id) == {n \in notes : n.from_table_id = table_id}

\* The four listings differ only in their filter: 404 when the table is
\* absent, else the filtered notes, order_by(Note.created_at.desc()).
list_notes(op, table_id, filtered) ==
    LET found == TableById(table_id) # {}
    IN  /\ resp' = Response(op, IF found THEN 200 ELSE 404, "", <<table_id>>,
                            IF found THEN NewestFirst(filtered) ELSE <<>>)
        /\ UNCHANGED <<store, now, deactivated, reqs>>

get_table_notes(table_id) == list_notes("get_table_notes", table_id, InboxOf(table_id))
get_ignored_notes(table_id) ==
    list_notes("get_ignored_notes", table_id, IgnoredOf(table_id))
get_sent_notes(table_id) == list_notes("get_sent_notes", table_id, SentBy(table_id))
get_accepted_notes(table_id) ==
    list_notes("get_accepted_notes", table_id, AcceptedOf(table_id))

---------------------------------------------------------------------------
\* create_event and create_note statement by statement, for requests that
\* run concurrently (each request has its own Session; FastAPI runs the
\* handlers on a thread pool).  A worker's uncommitted writes are invisible
\* to the others until its commit.
Workers == {"w1", "w2"}
Idle == [pc |-> "idle"]
Free(w) == reqs[w].pc \in {"idle", "done"}

\* Lines 124-143: validation, then the UPDATE that marks the establishment's
\* active events inactive in this session.
ce_begin(w, tok, start, end, n) ==
    LET status == CreateEventStatus(tok, start, end, n)
    IN  /\ Free(w)
        /\ IF status = 200
           THEN /\ reqs' = [reqs EXCEPT ![w] =
                               [pc |-> "ce_updated", op |-> "create_event",
                                est |-> tok.establishment_id, start |-> start,
                                end |-> end, n |-> n,
                                dirty |-> ActiveOf(events, tok.establishment_id)]]
                /\ UNCHANGED resp
           ELSE /\ reqs' = [reqs EXCEPT ![w] = Idle]
                /\ resp' = Response("create_event", status, "", <<>>, 0)
        /\ UNCHANGED <<store, now, deactivated>>

\* Line 146: generate_event_code against the committed events.
ce_generate(w, code) ==
    /\ reqs[w].pc = "ce_updated"
    /\ code \in generate_event_code(events)
    /\ reqs' = [reqs EXCEPT ![w] = [reqs[w] EXCEPT !.pc = "ce_coded"] @@ [code |-> code]]
    /\ UNCHANGED <<store, now, resp, deactivated>>

\* The loop of generate_event_code with its test inverted: a drawn code is
\* returned when an event has it.
ce_drawInverted(w, code) ==
    LET r == reqs[w]
    IN  /\ r.pc = "ce_updated"
        /\ code \in Codes
        /\ reqs' = [reqs EXCEPT ![w] =
                       IF \E e \in events : e.code = code
                       THEN [r EXCEPT !.pc = "ce_coded"] @@ [code |-> code]
                       ELSE [rejected |-> code] @@ r]
        /\ UNCHANGED <<store, now, resp, deactivated>>

\* One turn of the loop of generate_event_code (lines 73-77): a code is
\* drawn; if an event has it the loop goes round, and else the code is
\* returned.
ce_draw(w, code) ==
    LET r == reqs[w]
    IN  /\ r.pc = "ce_updated"
        /\ code \in Codes
        /\ reqs' = [reqs EXCEPT ![w] =
                       IF \E e \in events : e.code = code
                       THEN [rejected |-> code] @@ r
                       ELSE [r EXCEPT !.pc = "ce_coded"] @@ [code |-> code]]
        /\ UNCHANGED <<store, now, resp, deactivated>>

\* Lines 174-176: the first commit.  Event.code is a unique column: the
\* commit of a code another request has committed meanwhile raises, and the
\* session's writes are dropped.
ce_commit_event(w) ==
    LET r == reqs[w]
    IN  /\ r.pc = "ce_coded"
        /\ IF \E e \in events : e.code = r.code
           THEN /\ reqs' = [reqs EXCEPT ![w] = Idle]
                /\ resp' = Response("create_event", 500, "IntegrityError", <<>>, 0)
                /\ UNCHANGED <<events, nextId>>
           ELSE /\ nextId.event <= MaxEvents
                /\ events' = EventsAfterInsert(events, r.dirty, nextId.event, r.code,
                                               r.est, r.start, r.end, r.n)
                /\ nextId' = [nextId EXCEPT !.event = @ + 1]
                /\ reqs' = [reqs EXCEPT ![w] = [r EXCEPT !.pc = "ce_event"]
                                               @@ [event_id |-> nextId.event]]
                /\ UNCHANGED resp
        /\ UNCHANGED <<establishments, admins, rooms, tables, users, notes, now,
                       deactivated>>

\* Lines 178-186: the second commit.
ce_commit_room(w) ==
    LET r == reqs[w]
    IN  /\ r.pc = "ce_event"
        /\ rooms' = rooms \cup {[id |-> nextId.room, event_code |-> r.code,
                                 is_active |-> TRUE]}
        /\ nextId' = [nextId EXCEPT !.room = @ + 1]
        /\ reqs' = [reqs EXCEPT ![w] = [r EXCEPT !.pc = "ce_room"]
                                       @@ [room_id |-> nextId.room]]
        /\ UNCHANGED <<establishments, admins, events, tables, users, notes, now, resp,
                       deactivated>>

\* Lines 188-205: the third commit and the response.
ce_commit_tables(w) ==
    LET r == reqs[w]
    IN  /\ r.pc = "ce_room"
        /\ tables' = tables \cup NewTables(r.room_id, nextId.table, r.n)
        /\ nextId' = [nextId EXCEPT !.table = @ + r.n]
        /\ reqs' = [reqs EXCEPT ![w] =
                       [pc |-> "done", op |-> "create_event", est |-> r.est,
                        event_id |-> r.event_id]]
        /\ resp' = Response("create_event", 200, "", <<>>, r.event_id)
        /\ UNCHANGED <<establishments, admins, events, rooms, users, notes, now,
                       deactivated>>

\* create_note lines 18-37: the reads and the quota count.
cn_check(w, from_table_id, to_table_id) ==
    LET status == CreateNoteStatus(from_table_id, to_table_id)
    IN  /\ Free(w)
        /\ IF status = 200
           THEN /\ reqs' = [reqs EXCEPT ![w] =
                               [pc |-> "cn_checked", op |-> "create_note",
                                from_table_id |-> from_table_id,
                                to_table_id |-> to_table_id]]
                /\ UNCHANGED resp
           ELSE /\ reqs' = [reqs EXCEPT ![w] = Idle]
                /\ resp' = Response("create_note", status, "",
                                    <<from_table_id, to_table_id, DefaultMessage>>, 0)
        /\ UNCHANGED <<store, now, deactivated>>

\* create_note lines 39-49: the insert and its commit.
cn_commit(w) ==
    LET r == reqs[w]
    IN  /\ r.pc = "cn_checked"
        /\ nextId.note <= MaxNotes
        /\ notes' = notes \cup {NewNote(nextId.note, r.from_table_id, r.to_table_id,
                                        DefaultMessage)}
        /\ nextId' = [nextId EXCEPT !.note = @ + 1]
        /\ reqs' = [reqs EXCEPT ![w] = [pc |-> "done", op |-> "create_note"]]
        /\ resp' = Response("create_note", 200, "",
                            <<r.from_table_id, r.to_table_id, DefaultMessage>>,
                            nextId.note)
        /\ UNCHANGED <<establishments, admins, events, rooms, tables, users, now,
                       deactivated>>

\* delete_establishment statement by statement.  The request's session
\* deletes rows inside one transaction: reqs[w].gone holds the rows it has
\* deleted and not yet committed, which every other request still sees.
NoneGone == [notes |-> {}, users |-> {}, tables |-> {}, rooms |-> {}, events |-> {},
             admins |-> {}]
Deleting(w) ==
    reqs[w].pc \in {"de_codes", "de_rooms", "de_users", "de_tables", "de_admins", "de_est"}

\* Lines 221-227: the establishment is looked up and the codes of its events
\* are read.
de_begin(w, est_id) ==
    /\ Free(w)
    /\ IF est_id \in establishments
       THEN /\ reqs' = [reqs EXCEPT ![w] =
                           [pc |-> "de_codes", op |-> "delete_establishment",
                            est_id |-> est_id,
                            codes |-> {e.code : e \in {e \in events :
                                                         e.establishment_id = est_id}},
                            code |-> <<>>, left |-> {}, room |-> 0, gone |-> NoneGone]]
            /\ UNCHANGED resp
       ELSE /\ reqs' = [reqs EXCEPT ![w] = [pc |-> "done", op |-> "delete_establishment"]]
            /\ resp' = Response("delete_establishment", 404, "", <<est_id>>, 0)
    /\ UNCHANGED <<store, now, deactivated>>

\* Lines 230-231: the loop takes the next code and reads its rooms.
de_code(w) ==
    LET r == reqs[w]
    IN  /\ r.pc = "de_codes"
        /\ \E c \in r.codes :
              reqs' = [reqs EXCEPT ![w] =
                          [r EXCEPT !.pc = "de_rooms", !.code = c, !.codes = @ \ {c},
                                    !.left = {q.id : q \in {q \in rooms \ r.gone.rooms :
                                                               q.event_code = c}}]]
        /\ UNCHANGED <<store, now, resp, deactivated>>

\* The room's notes deleted last and its tables first.
de_room_notesTablesFirst(w) ==
    LET r == reqs[w]
    IN  /\ r.pc = "de_rooms"
        /\ \E q \in r.left :
              reqs' = [reqs EXCEPT ![w] =
                          [r EXCEPT !.pc = "de_users", !.room = q,
                                    !.gone.tables = @ \cup {t \in tables : t.room_id = q}]]
        /\ UNCHANGED <<store, now, resp, deactivated>>

\* Lines 232-234: the inner loop takes the next room and deletes its notes.
de_room_notes(w) ==
    LET r == reqs[w]
    IN  /\ r.pc = "de_rooms"
        /\ \E q \in r.left :
              reqs' = [reqs EXCEPT ![w] =
                          [r EXCEPT !.pc = "de_users", !.room = q,
                                    !.gone.notes = @ \cup {n \in notes : n.room_id = q}]]
        /\ UNCHANGED <<store, now, resp, deactivated>>

\* Lines 235-236: the room's users are deleted.
de_room_users(w) ==
    LET r == reqs[w]
    IN  /\ r.pc = "de_users"
        /\ reqs' = [reqs EXCEPT ![w] =
                       [r EXCEPT !.pc = "de_tables",
                                 !.gone.users = @ \cup {u \in users : u.room_id = r.room}]]
        /\ UNCHANGED <<store, now, resp, deactivated>>

\* Lines 237-238: the room's tables are deleted.
de_room_tables(w) ==
    LET r == reqs[w]
    IN  /\ r.pc = "de_tables"
        /\ reqs' = [reqs EXCEPT ![w] =
                       [r EXCEPT !.pc = "de_rooms", !.left = @ \ {r.room}, !.room = 0,
                                 !.gone.tables = @ \cup {t \in tables :
                                                            t.room_id = r.room}]]
        /\ UNCHANGED <<store, now, resp, deactivated>>

\* Lines 239-240: the inner loop over, the rooms of the code are deleted.
de_rooms(w) ==
    LET r == reqs[w]
    IN  /\ r.pc = "de_rooms"
        /\ r.left = {}
        /\ reqs' = [reqs EXCEPT ![w] =
                       [r EXCEPT !.pc = "de_codes", !.code = <<>>,
                                 !.gone.rooms = @ \cup {q \in rooms :
                                                           q.event_code = r.code}]]
        /\ UNCHANGED <<store, now, resp, deactivated>>

\* Lines 242-243: the outer loop over, the establishment's events are deleted.
de_events(w) ==
    LET r == reqs[w]
    IN  /\ r.pc = "de_codes"
        /\ r.codes = {}
        /\ reqs' = [reqs EXCEPT ![w] =
                       [r EXCEPT !.pc = "de_admins",
                                 !.gone.events = @ \cup {e \in events :
                                                            e.establishment_id = r.est_id}]]
        /\ UNCHANGED <<store, now, resp, deactivated>>

\* Lines 245-246: the establishment's admins are deleted.
de_admins(w) ==
    LET r == reqs[w]
    IN  /\ r.pc = "de_admins"
        /\ reqs' = [reqs EXCEPT ![w] =
                       [r EXCEPT !.pc = "de_est",
                                 !.gone.admins = @ \cup {a \in admins :
                                                            a.establishment_id = r.est_id}]]
        /\ UNCHANGED <<store, now, resp, deactivated>>

\* Lines 248-250: the establishment is deleted and the transaction is
\* committed.
de_commit(w) ==
    LET r == reqs[w]
    IN  /\ r.pc = "de_est"
        /\ notes' = notes \ r.gone.notes
        /\ users' = users \ r.gone.users
        /\ tables' = tables \ r.gone.tables
        /\ rooms' = rooms \ r.gone.rooms
        /\ events' = events \ r.gone.events
        /\ admins' = admins \ r.gone.admins
        /\ establishments' = establishments \ {r.est_id}
        /\ deactivated' = deactivated \cap {e.id : e \in events'}
        /\ reqs' = [reqs EXCEPT ![w] = [pc |-> "done", op |-> "delete_establishment"]]
        /\ resp' = Response("delete_establishment", 200, "", <<r.est_id>>, 0)
        /\ UNCHANGED <<nextId, now>>

\* create_admin_user lines 273-281: the establishment and the username are
\* looked up.
ca_check(w, username, est_id) ==
    LET status == IF est_id \notin establishments THEN 404
                  ELSE IF \E a \in admins : a.username = username THEN 400
                  ELSE 200
    IN  /\ Free(w)
        /\ IF status = 200
           THEN /\ reqs' = [reqs EXCEPT ![w] =
                               [pc |-> "ca_checked", op |-> "create_admin_user",
                                username |-> username, est_id |-> est_id]]
                /\ UNCHANGED resp
           ELSE /\ reqs' = [reqs EXCEPT ![w] =
                               [pc |-> "done", op |-> "create_admin_user",
                                username |-> username, status |-> status]]
                /\ resp' = Response("create_admin_user", status, "",
                                    <<username, est_id>>, 0)
        /\ UNCHANGED <<store, now, deactivated>>

\* create_admin_user lines 283-291: the insert and its commit.
\* AdminUser.username is a unique column: the commit of a username another
\* request has committed meanwhile raises, and nothing is written.
ca_commit(w) ==
    LET r == reqs[w]
        taken == \E a \in admins : a.username = r.username
    IN  /\ r.pc = "ca_checked"
        /\ ~taken => nextId.admin <= MaxAdmins
        /\ IF taken
           THEN UNCHANGED <<admins, nextId>>
           ELSE /\ admins' = admins \cup {[id |-> nextId.admin, username |-> r.username,
                                           establishment_id |-> r.est_id]}
                /\ nextId' = [nextId EXCEPT !.admin = @ + 1]
        /\ reqs' = [reqs EXCEPT ![w] =
                       [pc |-> "done", op |-> "create_admin_user",
                        username |-> r.username,
                        status |-> IF taken THEN 500 ELSE 200]]
        /\ resp' = Response("create_admin_user", IF taken THEN 500 ELSE 200,
                            IF taken THEN "IntegrityError" ELSE "",
                            <<r.username, r.est_id>>, 0)
        /\ UNCHANGED <<establishments, events, rooms, tables, users, notes, now,
                       deactivated>>

\* update_admin_user lines 375-384: the admin is read and, for a new
\* username, the username is looked up; the new username is set in the
\* request's session.
ua_check(w, admin_id, username) ==
    LET found == {a \in admins : a.id = admin_id}
        admin == CHOOSE a \in found : TRUE
        rename == username # "" /\ username # admin.username
        status == IF found = {} THEN 404
                  ELSE IF rename /\ \E a \in admins : a.username = username THEN 400
                  ELSE 200
    IN  /\ Free(w)
        /\ IF status = 200
           THEN /\ reqs' = [reqs EXCEPT ![w] =
                               [pc |-> "ua_checked", op |-> "update_admin_user",
                                admin_id |-> admin_id,
                                username |-> IF rename THEN username ELSE admin.username]]
                /\ UNCHANGED resp
           ELSE /\ reqs' = [reqs EXCEPT ![w] =
                               [pc |-> "done", op |-> "update_admin_user",
                                username |-> username, status |-> status]]
                /\ resp' = Response("update_admin_user", status, "",
                                    <<admin_id, username, 0>>, 0)
        /\ UNCHANGED <<store, now, deactivated>>

\* update_admin_user line 398: the commit; establishment_id is None in the
\* request.  The UPDATE of a username another admin has meanwhile raises.
ua_commit(w) ==
    LET r == reqs[w]
        taken == \E a \in admins : a.username = r.username /\ a.id # r.admin_id
    IN  /\ r.pc = "ua_checked"
        /\ admins' = IF taken THEN admins
                     ELSE {IF a.id = r.admin_id THEN [a EXCEPT !.username = r.username]
                           ELSE a : a \in admins}
        /\ reqs' = [reqs EXCEPT ![w] =
                       [pc |-> "done", op |-> "update_admin_user",
                        username |-> r.username,
                        status |-> IF taken THEN 500 ELSE 200]]
        /\ resp' = Response("update_admin_user", IF taken THEN 500 ELSE 200,
                            IF taken THEN "IntegrityError" ELSE "",
                            <<r.admin_id, r.username, 0>>, 0)
        /\ UNCHANGED <<establishments, events, rooms, tables, users, notes, nextId, now,
                       deactivated>>

\* accept_note and ignore_note lines 65-71 and 80-86: the note is read and
\* its status tested in the request's own session.
rn_check(w, op, note_id) ==
    LET status == RespondStatus(note_id)
    IN  /\ Free(w)
        /\ IF status = 200
           THEN /\ reqs' = [reqs EXCEPT ![w] =
                               [pc |-> "rn_checked", op |-> op, note_id |-> note_id]]
                /\ UNCHANGED resp
           ELSE /\ reqs' = [reqs EXCEPT ![w] =
                               [pc |-> "done", op |-> op, note_id |-> note_id,
                                status |-> status]]
                /\ resp' = Response(op, status, "", <<note_id>>, 0)
        /\ UNCHANGED <<store, now, deactivated>>

\* accept_note and ignore_note lines 73-76 and 88-91: the status is written
\* (UPDATE notes SET status = ... WHERE id = ...) and committed.
rn_commit(w) ==
    LET r == reqs[w]
        decision == IF r.op = "accept_note" THEN ACCEPTED ELSE IGNORED
    IN  /\ r.pc = "rn_checked"
        /\ notes' = {IF n.id = r.note_id THEN [n EXCEPT !.status = decision] ELSE n
                     : n \in notes}
        /\ reqs' = [reqs EXCEPT ![w] =
                       [pc |-> "done", op |-> r.op, note_id |-> r.note_id,
                        status |-> 200]]
        /\ resp' = Response(r.op, 200, "", <<r.note_id>>, 0)
        /\ UNCHANGED <<establishments, admins, events, rooms, tables, users, nextId, now,
                       deactivated>>

---------------------------------------------------------------------------
\* Initial stores.  Tenants: the master has created two establishments and
\* one admin in each.  InitNotes: each admin has then created one event, of
\* two tables and of one table, whose window holds the present.
Code1 == MkCode(CodeChars[1])
Code2 == MkCode(CodeChars[2])

Tenants ==
    /\ establishments = {1, 2}
    /\ admins = {[id |-> 1, username |-> "u1", establishment_id |-> 1],
                 [id |-> 2, username |-> "u2", establishment_id |-> 2]}

NoRequests ==
    /\ resp = NoResp
    /\ deactivated = {}
    /\ reqs = [w \in Workers |-> Idle]

Init ==
    /\ Tenants
    /\ events = {}
    /\ rooms = {}
    /\ tables = {}
    /\ users = {}
    /\ notes = {}
    /\ nextId = [est |-> 3, admin |-> 3, event |-> 1, room |-> 1, table |-> 1,
                 user |-> 1, note |-> 1]
    /\ now = 0
    /\ NoRequests

InitNotes ==
    /\ Tenants
    /\ events = EventsAfterInsert(EventsAfterInsert({}, {}, 1, Code1, 1, 1, 2, 2),
                                  {}, 2, Code2, 2, 1, 2, 1)
    /\ rooms = {[id |-> 1, event_code |-> Code1, is_active |-> TRUE],
                [id |-> 2, event_code |-> Code2, is_active |-> TRUE]}
    /\ tables = NewTables(1, 1, 2) \cup NewTables(2, 3, 1)
    /\ users = {}
    /\ notes = {}
    /\ nextId = [est |-> 3, admin |-> 3, event |-> 3, room |-> 3, table |-> 4,
                 user |-> 1, note |-> 1]
    /\ now = 1
    /\ NoRequests

\* InitEvents: the tenants, and one event written before events had an
\* establishment (establishment_id is NULL, here 0), still active.
LegacyCode == MkCode(CodeChars[5])

InitEvents ==
    /\ Tenants
    /\ events = {[id |-> 0, code |-> LegacyCode, establishment_id |-> 0,
                  start_date |-> 1, end_date |-> 2, number_of_tables |-> 1,
                  is_active |-> TRUE]}
    /\ rooms = {}
    /\ tables = {}
    /\ users = {}
    /\ notes = {}
    /\ nextId = [est |-> 3, admin |-> 3, event |-> 1, room |-> 1, table |-> 1,
                 user |-> 1, note |-> 1]
    /\ now = 0
    /\ NoRequests

\* InitInbox: admin 1 has created an event of two tables whose window holds
\* the present, and a first user has joined at table 1.
InitInbox ==
    /\ Tenants
    /\ events = EventsAfterInsert({}, {}, 1, Code1, 1, 1, 2, 2)
    /\ rooms = {[id |-> 1, event_code |-> Code1, is_active |-> TRUE]}
    /\ tables = NewTables(1, 1, 2)
    /\ users = {[id |-> 0, table_id |-> 1, room_id |-> 1]}
    /\ notes = {}
    /\ nextId = [est |-> 3, admin |-> 3, event |-> 2, room |-> 2, table |-> 3,
                 user |-> 1, note |-> 1]
    /\ now = 1
    /\ NoRequests

\* InitRespond: InitInbox after table 1 has sent table 2 two notes.
InitRespond ==
    /\ Tenants
    /\ events = EventsAfterInsert({}, {}, 1, Code1, 1, 1, 2, 2)
    /\ rooms = {[id |-> 1, event_code |-> Code1, is_active |-> TRUE]}
    /\ tables = NewTables(1, 1, 2)
    /\ users = {[id |-> 0, table_id |-> 1, room_id |-> 1]}
    /\ notes = {NewNote(1, 1, 2, DefaultMessage), NewNote(2, 1, 2, DefaultMessage)}
    /\ nextId = [est |-> 3, admin |-> 3, event |-> 2, room |-> 2, table |-> 3,
                 user |-> 1, note |-> 3]
    /\ now = 1
    /\ NoRequests

\* InitCascade: InitNotes after a user has joined at table 1, tables 1 and 2
\* have sent each other a note and create_room has made a second room with
\* the code of the first event.
InitCascade ==
    /\ Tenants
    /\ events = EventsAfterInsert(EventsAfterInsert({}, {}, 1, Code1, 1, 1, 2, 2),
                                  {}, 2, Code2, 2, 1, 2, 1)
    /\ rooms = {[id |-> 1, event_code |-> Code1, is_active |-> TRUE],
                [id |-> 2, event_code |-> Code2, is_active |-> TRUE],
                [id |-> 3, event_code |-> Code1, is_active |-> FALSE]}
    /\ tables = NewTables(1, 1, 2) \cup NewTables(2, 3, 1)
    /\ users = {[id |-> 0, table_id |-> 1, room_id |-> 1]}
    /\ notes = {NewNote(1, 1, 2, DefaultMessage), NewNote(2, 2, 1, DefaultMessage)}
    /\ nextId = [est |-> 3, admin |-> 3, event |-> 3, room |-> 4, table |-> 4,
                 user |-> 1, note |-> 3]
    /\ now = 1
    /\ NoRequests

\* InitMaster: two establishments; the one admin, of establishment 1, has
\* created an event of two tables whose window holds the present.
InitMaster ==
    /\ establishments = {1, 2}
    /\ admins = {[id |-> 1, username |-> "u1", establishment_id |-> 1]}
    /\ events = EventsAfterInsert({}, {}, 1, Code1, 1, 1, 2, 2)
    /\ rooms = {[id |-> 1, event_code |-> Code1, is_active |-> TRUE]}
    /\ tables = NewTables(1, 1, 2)
    /\ users = {}
    /\ notes = {}
    /\ nextId = [est |-> 3, admin |-> 2, event |-> 2, room |-> 2, table |-> 3,
                 user |-> 1, note |-> 1]
    /\ now = 1
    /\ NoRequests

EstIds == 1..MaxEst
AdminIds == 1..MaxAdmins
Tokens == [admin_id : AdminIds, establishment_id : EstIds]
\* The tokens the two admins of Tenants were given when they logged in.
IssuedTokens == {[admin_id |-> 1, establishment_id |-> 1],
                 [admin_id |-> 2, establishment_id |-> 2]}
EventTimes == 1..(MaxTime - 1)
TableCounts == {0, 1, 2, 101}
ClientCodes == Codes \cup {lower(c) : c \in Codes}
EventIds == 1..MaxEvents
\* The codes a client may write for code c: c with any of its characters in
\* lower case.
Recasings(c) ==
    {[i \in 1..Len(c) |-> IF i \in S THEN LowerOf[c[i]] ELSE c[i]] :
        S \in SUBSET (1..Len(c))}
RecasedCodes == UNION {Recasings(c) : c \in Codes}
\* Table counts around the limits, and the count the suite calls too high.
CreateCounts == {MIN_TABLES - 1, 51, MAX_TABLES + 1}
TableIds == 1..4
\* Messages around the limits of NoteCreate.message.
Messages == {Msg(k) : k \in {MIN_MESSAGE_LEN - 1, MIN_MESSAGE_LEN, MAX_MESSAGE_LEN,
                             MAX_MESSAGE_LEN + 1}}
NoteIds == 1..(MaxNotes + 1)
\* Every room id the store can hold, and one it cannot.
RoomIds == 1..(MaxEvents + MaxStrayRooms + 1)

---------------------------------------------------------------------------
\* Spec: events and rooms of the two tenants; each handler is one step.
Next ==
    \/ Return
    \/ Ready /\ Tick
    \/ Ready /\ \E tok \in Tokens, s \in EventTimes, e \in EventTimes, n \in TableCounts,
                   c \in Codes : create_event(tok, s, e, n, c)
    \/ Ready /\ \E tok \in Tokens, id \in EventIds, r \in rooms \cup {NoRow} :
                   deactivate_event(tok, id, r)
    \/ Ready /\ \E c \in ClientCodes, r \in rooms \cup {NoRow} : validate_event_code(c, r)
    \/ Ready /\ \E a \in AdminIds, e \in EstIds : update_admin_user(a, "", e)

Spec == Init /\ [][Next]_vars

\* SpecNotes: users and notes in the rooms of two events; each handler is
\* one step.
NextNotes ==
    \/ Return
    \/ Ready /\ \E f \in TableIds, t \in TableIds : create_note(f, t, DefaultMessage)
    \/ Ready /\ \E n \in NoteIds : accept_note(n)
    \/ Ready /\ \E n \in NoteIds : ignore_note(n)
    \/ Ready /\ \E tok \in Tokens, id \in EventIds, r \in rooms \cup {NoRow} :
                   deactivate_event(tok, id, r)
    \/ Ready /\ \E r \in 1..2 : activate_room(r)
    \/ Ready /\ \E e \in EstIds : delete_establishment(e)

SpecNotes == InitNotes /\ [][NextNotes]_vars

\* SpecRooms: joining and sending in rooms whose events are deactivated and
\* whose rooms are activated; each handler is one step.
NextRooms ==
    \/ Return
    \/ Ready /\ \E t \in TableIds : create_user(t)
    \/ Ready /\ \E f \in TableIds, t \in TableIds : create_note(f, t, DefaultMessage)
    \/ Ready /\ \E tok \in Tokens, id \in EventIds, r \in rooms \cup {NoRow} :
                   deactivate_event(tok, id, r)
    \/ Ready /\ \E c \in Codes : create_room(c)
    \/ Ready /\ \E r \in 1..3 : activate_room(r)

SpecRooms == InitNotes /\ [][NextRooms]_vars

\* SpecConc: two workers run create_event concurrently, while
\* validate_event_code observes the committed store.
NextConc ==
    \/ \E w \in Workers, tok \in Tokens, n \in {1, 2} : ce_begin(w, tok, 1, 2, n)
    \/ \E w \in Workers, c \in Codes : ce_generate(w, c)
    \/ \E w \in Workers : ce_commit_event(w)
    \/ \E w \in Workers : ce_commit_room(w)
    \/ \E w \in Workers : ce_commit_tables(w)
    \/ \E c \in Codes, r \in rooms \cup {NoRow} : validate_event_code(c, r)
    \/ Tick

SpecConc == Init /\ [][NextConc]_vars

\* SpecConcNotes: two workers run create_note concurrently in the rooms of
\* two events.
NextConcNotes ==
    \/ \E w \in Workers, f \in TableIds, t \in TableIds : cn_check(w, f, t)
    \/ \E w \in Workers : cn_commit(w)

SpecConcNotes == InitNotes /\ [][NextConcNotes]_vars

\* SpecDelete: the master moves admins and deletes establishments whose
\* rooms hold users and notes; each handler is one step.
NextDelete ==
    \/ Return
    \/ Ready /\ \E t \in TableIds : create_user(t)
    \/ Ready /\ \E f \in TableIds, t \in TableIds : create_note(f, t, DefaultMessage)
    \/ Ready /\ \E c \in Codes : create_room(c)
    \/ Ready /\ \E a \in AdminIds, e \in EstIds : update_admin_user(a, "", e)
    \/ Ready /\ \E e \in EstIds : delete_establishment(e)

SpecDelete == InitNotes /\ [][NextDelete]_vars

\* SpecConcCodes: two workers run create_event concurrently and draw their
\* codes against the committed events.
NextConcCodes ==
    \/ \E w \in Workers, tok \in Tokens : ce_begin(w, tok, 1, 2, 1)
    \/ \E w \in Workers, c \in Codes : ce_generate(w, c)
    \/ \E w \in Workers : ce_commit_event(w)
    \/ \E w \in Workers : ce_commit_room(w)
    \/ \E w \in Workers : ce_commit_tables(w)

SpecConcCodes == Init /\ [][NextConcCodes]_vars

\* SpecSupersede: admins create events over the events they have, while
\* users join and send in the rooms; each handler is one step.
NextSupersede ==
    \/ Return
    \/ Ready /\ \E tok \in Tokens, n \in {1, 2}, c \in Codes : create_event(tok, 1, 2, n, c)
    \/ Ready /\ \E t \in TableIds : create_user(t)
    \/ Ready /\ \E f \in TableIds, t \in TableIds : create_note(f, t, DefaultMessage)

SpecSupersede == Init /\ [][NextSupersede]_vars

\* SpecEvents: the life of events: admins create, deactivate and list them,
\* the master moves admins between establishments; each handler is one step.
NextEvents ==
    \/ Return
    \/ Ready /\ Tick
    \/ Ready /\ \E tok \in Tokens, c \in Codes : create_event(tok, 1, 2, 1, c)
    \/ Ready /\ \E tok \in Tokens, id \in EventIds \cup {0}, r \in rooms \cup {NoRow} :
                   deactivate_event(tok, id, r)
    \/ Ready /\ \E a \in AdminIds, e \in EstIds : update_admin_user(a, "", e)
    \/ Ready /\ \E tok \in Tokens : list_events(tok)
    \/ Ready /\ \E e \in {0} \cup EstIds : list_all_events(e)

SpecEvents == InitEvents /\ [][NextEvents]_vars

\* SpecCreate: create_event over every window and the table counts around
\* the limits; each handler is one step.
NextCreate ==
    \/ Return
    \/ Ready /\ \E tok \in Tokens, s \in EventTimes, e \in EventTimes, n \in CreateCounts,
                   c \in Codes : create_event(tok, s, e, n, c)

SpecCreate == Init /\ [][NextCreate]_vars

\* SpecTables: the tables of the rooms of events under the handlers that
\* write events, rooms and tables; each handler is one step.
NextTables ==
    \/ Return
    \/ Ready /\ \E tok \in Tokens, n \in {1, 2}, c \in Codes : create_event(tok, 1, 2, n, c)
    \/ Ready /\ \E tok \in Tokens, id \in EventIds, r \in rooms \cup {NoRow} :
                   deactivate_event(tok, id, r)
    \/ Ready /\ \E r \in 1..MaxEvents : activate_room(r)
    \/ Ready /\ \E e \in EstIds : delete_establishment(e)

SpecTables == Init /\ [][NextTables]_vars

\* SpecActivate: the room routes beside the rooms of two events; each
\* handler is one step.
NextActivate ==
    \/ Return
    \/ Ready /\ \E c \in Codes : create_room(c)
    \/ Ready /\ \E r \in RoomIds : activate_room(r)
    \/ Ready /\ \E tok \in Tokens, id \in EventIds, r \in rooms \cup {NoRow} :
                   deactivate_event(tok, id, r)

SpecActivate == InitNotes /\ [][NextActivate]_vars

\* SpecValidate: clients validate codes in any casing while admins create
\* and end events; each handler is one step.
NextValidate ==
    \/ Return
    \/ Ready /\ Tick
    \/ Ready /\ \E tok \in Tokens, c \in Codes : create_event(tok, 1, 2, 1, c)
    \/ Ready /\ \E tok \in Tokens, id \in EventIds, r \in rooms \cup {NoRow} :
                   deactivate_event(tok, id, r)
    \/ Ready /\ \E c \in RecasedCodes, r \in rooms \cup {NoRow} : validate_event_code(c, r)

SpecValidate == Init /\ [][NextValidate]_vars

\* SpecMaster: the master creates, renames, moves and deletes admins while
\* the tables of an event exchange notes; each handler is one step.
NextMaster ==
    \/ Return
    \/ Ready /\ \E t \in TableIds : create_user(t)
    \/ Ready /\ \E f \in TableIds, t \in TableIds : create_note(f, t, DefaultMessage)
    \/ Ready /\ \E u \in Usernames, e \in EstIds \cup {MaxEst + 1} : create_admin_user(u, e)
    \/ Ready /\ \E a \in AdminIds \cup {MaxAdmins + 1}, u \in Usernames \cup {""},
                   e \in EstIds \cup {0, MaxEst + 1} : update_admin_user(a, u, e)
    \/ Ready /\ \E a \in AdminIds \cup {MaxAdmins + 1} : delete_admin_user(a)

SpecMaster == InitMaster /\ [][NextMaster]_vars

\* SpecConcRespond: two workers run accept_note and ignore_note concurrently
\* on the notes a table has received.
NextConcRespond ==
    \/ \E w \in Workers, op \in {"accept_note", "ignore_note"}, n \in NoteIds :
          rn_check(w, op, n)
    \/ \E w \in Workers : rn_commit(w)

SpecConcRespond == InitRespond /\ [][NextConcRespond]_vars

\* SpecCascade: delete_establishment statement by statement, while clients
\* read the committed store.
NextCascade ==
    \/ \E e \in EstIds \cup {MaxEst + 1} : de_begin("w1", e)
    \/ de_code("w1")
    \/ de_room_notes("w1")
    \/ de_room_users("w1")
    \/ de_room_tables("w1")
    \/ de_rooms("w1")
    \/ de_events("w1")
    \/ de_admins("w1")
    \/ de_commit("w1")
    \/ \E t \in TableIds : get_table_notes(t)
    \/ \E c \in Codes, r \in rooms \cup {NoRow} : validate_event_code(c, r)

SpecCascade == InitCascade /\ [][NextCascade]_vars

\* SpecLive: two workers run create_event, the generator's loop turn by
\* turn.  Every request in flight goes on to its next statement, and the
\* random draw does not avoid the unused codes for ever.
NextLive ==
    \/ \E w \in Workers, tok \in Tokens :
          /\ nextId.event + Cardinality({v \in Workers : ~Free(v)}) <= MaxEvents
          /\ ce_begin(w, tok, 1, 2, 1)
    \/ \E w \in Workers, c \in Codes : ce_draw(w, c)
    \/ \E w \in Workers : ce_commit_event(w)
    \/ \E w \in Workers : ce_commit_room(w)
    \/ \E w \in Workers : ce_commit_tables(w)

FairLive ==
    \A w \in Workers :
       /\ WF_vars(\E c \in Codes : (\A e \in events : e.code # c) /\ ce_draw(w, c))
       /\ WF_vars(ce_commit_event(w))
       /\ WF_vars(ce_commit_room(w))
       /\ WF_vars(ce_commit_tables(w))

SpecLive == Init /\ [][NextLive]_vars /\ FairLive

\* SpecConcAdmins: two workers run create_admin_user and update_admin_user
\* concurrently.
NextConcAdmins ==
    \/ \E w \in Workers, u \in Usernames, e \in EstIds \cup {MaxEst + 1} : ca_check(w, u, e)
    \/ \E w \in Workers : ca_commit(w)
    \/ \E w \in Workers, a \in AdminIds \cup {MaxAdmins + 1}, u \in Usernames \cup {""} :
          ua_check(w, a, u)
    \/ \E w \in Workers : ua_commit(w)

SpecConcAdmins == InitMaster /\ [][NextConcAdmins]_vars

\* SpecTokens: the admins work with the tokens of their logins while the
\* master moves and deletes them; each handler is one step.
NextTokens ==
    \/ Return
    \/ Ready /\ \E tok \in IssuedTokens, c \in Codes : create_event(tok, 1, 2, 1, c)
    \/ Ready /\ \E tok \in IssuedTokens, id \in EventIds, r \in rooms \cup {NoRow} :
                   deactivate_event(tok, id, r)
    \/ Ready /\ \E tok \in IssuedTokens : list_events(tok)
    \/ Ready /\ \E a \in AdminIds, e \in EstIds : update_admin_user(a, "", e)
    \/ Ready /\ \E a \in AdminIds : delete_admin_user(a)

SpecTokens == Init /\ [][NextTokens]_vars

\* SpecFrame: the master deletes establishments beside rooms in which users
\* join and notes are sent and answered; each handler is one step.
NextFrame ==
    \/ Return
    \/ Ready /\ \E t \in TableIds : create_user(t)
    \/ Ready /\ \E f \in TableIds, t \in TableIds : create_note(f, t, DefaultMessage)
    \/ Ready /\ \E n \in NoteIds : accept_note(n)
    \/ Ready /\ \E e \in EstIds \cup {MaxEst + 1} : delete_establishment(e)

SpecFrame == InitCascade /\ [][NextFrame]_vars

\* SpecInbox: the tables of one event exchange notes, answer them and list
\* them; each handler is one step.
NextInbox ==
    \/ Return
    \/ Ready /\ \E t \in TableIds : create_user(t)
    \/ Ready /\ \E f \in TableIds, t \in TableIds : create_note(f, t, DefaultMessage)
    \/ Ready /\ \E n \in NoteIds : accept_note(n)
    \/ Ready /\ \E n \in NoteIds : ignore_note(n)
    \/ Ready /\ \E t \in TableIds : get_table_notes(t)
    \/ Ready /\ \E t \in TableIds : get_ignored_notes(t)
    \/ Ready /\ \E t \in TableIds : get_sent_notes(t)
    \/ Ready /\ \E t \in TableIds : get_accepted_notes(t)

SpecInbox == InitInbox /\ [][NextInbox]_vars

\* SpecMessages: notes with messages around the length limits; each
\* handler is one step.
NextMessages ==
    \/ Return
    \/ Ready /\ \E f \in TableIds, t \in TableIds, m \in Messages : create_note(f, t, m)

SpecMessages == InitNotes /\ [][NextMessages]_vars

---------------------------------------------------------------------------
\* Properties.

\* A handler step of the sequential specifications: the client was waiting
\* and the step answered a request of route op.
Answered(op) == resp = NoResp /\ resp'.op = op

ActiveEventsOf(est_id) == {e \in events : e.establishment_id = est_id /\ e.is_active}

\* C1: in every reachable state each establishment has at most one event
\* with is_active = true.
C1_OneActiveEventPerEstablishment ==
    \A est_id \in establishments : Cardinality(ActiveEventsOf(est_id)) <= 1

\* C2: once two concurrent create_event calls of one establishment have both
\* completed, exactly one of the two new events is active.
C2_ConcurrentCreatesLeaveOneActive ==
    (/\ \A w \in Workers : reqs[w].pc = "done" /\ reqs[w].op = "create_event"
     /\ reqs["w1"].est = reqs["w2"].est)
    => Cardinality({e \in events : /\ e.id \in {reqs[w].event_id : w \in Workers}
                                   /\ e.is_active}) = 1

\* C3: create_event is one transaction: in no committed store, which is what
\* every other request reads, is there an event without its room or a room
\* of an event with fewer tables than the event's number_of_tables.
C3_NoPartialEvent ==
    \A e \in events : \E r \in rooms :
        /\ r.event_code = e.code
        /\ Cardinality({t \in tables : t.room_id = r.id}) = e.number_of_tables

\* C4: validate_code of an existing event answers valid exactly when
\* start_date <= now <= end_date and the event is active.
C4_ValidIffInWindowAndActive ==
    resp.op = "validate_event_code" =>
        \A e \in events : e.code = upper(resp.arg[1]) =>
            (resp.status = 200 <=>
                (e.start_date <= now /\ now <= e.end_date /\ e.is_active))

\* What validate_code(code) must answer in the store it read.
ValidateContract(r) ==
    LET found == {e \in events : e.code = upper(r.arg[1])}
        e == CHOOSE x \in found : TRUE
    IN  IF found = {} THEN r.status = 404
        ELSE IF now < e.start_date
             THEN r.status = 400 /\ r.detail = "Event has not started yet"
        ELSE IF now > e.end_date
             THEN r.status = 400 /\ r.detail = "Event has expired"
        ELSE /\ r.status = 200
             /\ \E room \in rooms : room.id = r.out /\ room.event_code = e.code

\* C5: validate_code answers NotFound when no event has the code, NotStarted
\* before start_date, Expired after end_date whatever is_active is, and
\* otherwise the id of a room whose event_code is the code; it leaves the
\* store as it was.
C5_ValidateOutcomes ==
    [][(resp' # resp /\ resp'.op = "validate_event_code")
          => (ValidateContract(resp') /\ UNCHANGED store)]_vars

\* C6: a note's status changes at most once and only from sent to accepted or
\* ignored: an accept or ignore of a sent note succeeds and writes its
\* decision, an accept or ignore of a processed note is answered 400 and
\* leaves every note as it was.
C6_StatusChangesOnce ==
    [][/\ \A n \in notes : \A m \in notes' : m.id = n.id /\ m.status # n.status =>
              n.status = SENT /\ m.status \in {ACCEPTED, IGNORED}
       /\ (Answered("accept_note") \/ Answered("ignore_note")) =>
            \A n \in notes : n.id = resp'.arg[1] =>
               IF n.status = SENT
               THEN /\ resp'.status = 200
                    /\ \E m \in notes' :
                          /\ m.id = n.id
                          /\ m.status = IF resp'.op = "accept_note" THEN ACCEPTED
                                        ELSE IGNORED
               ELSE resp'.status = 400 /\ notes' = notes]_vars

\* C6 witness: an ignore of a note that was accepted before has been answered
\* 400, the note still accepted.
C6_Witness ==
    /\ resp.op = "ignore_note"
    /\ resp.status = 400
    /\ \E n \in notes : n.id = resp.arg[1] /\ n.status = ACCEPTED

\* A request of create_note from a table to itself or to a table of another
\* room, both tables in the store.
SelfOrCrossRoom(from_table_id, to_table_id) ==
    \E a \in tables, b \in tables :
        /\ a.id = from_table_id
        /\ b.id = to_table_id
        /\ (a.id = b.id \/ a.room_id # b.room_id)

\* C7 as stated: send_note from a table to itself, or to a table of another
\* room, is always answered 400 and persists no note.
C7_SelfOrCrossRoomIs400 ==
    [][(Answered("create_note") /\ SelfOrCrossRoom(resp'.arg[1], resp'.arg[2]))
          => (resp'.status = 400 /\ notes' = notes)]_vars

\* C7 amended: send_note from a table to itself, or to a table of another
\* room, always fails and persists no note: with 400 when the sender's room
\* is active, with 403 when it is not (the activity test runs first).
C7_SelfOrCrossRoomRejected ==
    [][(Answered("create_note") /\ SelfOrCrossRoom(resp'.arg[1], resp'.arg[2]))
          => /\ notes' = notes
             /\ \A a \in tables : a.id = resp'.arg[1] =>
                   resp'.status = IF RoomActive(a.room_id) THEN 400 ELSE 403]_vars

\* C7 witness: a send to a table of another room has been answered 400.
C7_Witness ==
    /\ resp.op = "create_note"
    /\ resp.status = 400
    /\ \E a \in tables, b \in tables :
          a.id = resp.arg[1] /\ b.id = resp.arg[2] /\ a.room_id # b.room_id

\* A request of create_note to another table of the sender's room, that room
\* active.
ValidSend(from_table_id, to_table_id) ==
    \E a \in tables, b \in tables :
        /\ a.id = from_table_id
        /\ b.id = to_table_id
        /\ a.id # b.id
        /\ a.room_id = b.room_id
        /\ RoomActive(a.room_id)

\* C8: a valid send from a table that has sent fewer than MAX_NOTES_PER_USER
\* notes succeeds and persists one note of status sent; from a table that
\* has sent MAX_NOTES_PER_USER notes it is answered 429 and persists nothing.
C8_QuotaAfterMaxNotes ==
    [][(Answered("create_note") /\ ValidSend(resp'.arg[1], resp'.arg[2]))
          => IF sent_count(resp'.arg[1]) >= MAX_NOTES_PER_USER
             THEN resp'.status = 429 /\ notes' = notes
             ELSE /\ resp'.status = 200
                  /\ \E n \in notes' \ notes :
                        /\ notes' = notes \cup {n}
                        /\ n.from_table_id = resp'.arg[1]
                        /\ n.to_table_id = resp'.arg[2]
                        /\ n.status = SENT]_vars

\* C8 witness: a valid send from a table that has sent exactly
\* MAX_NOTES_PER_USER notes has been answered 429.
C8_Witness ==
    /\ resp.op = "create_note"
    /\ resp.status = 429
    /\ ValidSend(resp.arg[1], resp.arg[2])
    /\ sent_count(resp.arg[1]) = MAX_NOTES_PER_USER

\* C9: under concurrent sends no table has more than MAX_NOTES_PER_USER
\* persisted notes.
C9_StrictQuota ==
    \A t \in tables : sent_count(t.id) <= MAX_NOTES_PER_USER

\* C10: a successful deactivate_event leaves the event and the room of its
\* code inactive, and no later send_note from a table of that room and no
\* later create_user at a table of that room succeeds.
C10_DeactivatedRoomStaysClosed ==
    \A e \in events : \A r \in rooms : r.event_code = e.code =>
        /\ (/\ resp.op = "deactivate_event"
            /\ resp.status = 200
            /\ resp.arg[2] = e.id) => (~e.is_active /\ ~r.is_active)
        /\ (/\ e.id \in deactivated
            /\ resp.op \in {"create_note", "create_user"}
            /\ \E t \in tables : t.id = resp.arg[1] /\ t.room_id = r.id)
              => resp.status # 200

\* C11: deactivate_event by an authenticated admin of establishment X is
\* answered 404 exactly when no event has the id, and 403 when the event
\* exists and belongs to another establishment; in both cases no event and
\* no room changes.
C11_DeactivateForbiddenOrNotFound ==
    [][(Answered("deactivate_event") /\ resp'.status # 401) =>
          LET found == {e \in events : e.id = resp'.arg[2]}
              caller == {a \in admins : a.id = resp'.arg[1]}
          IN  /\ resp'.status = 404 <=> found = {}
              /\ \A e \in found, a \in caller :
                    e.establishment_id # a.establishment_id => resp'.status = 403
              /\ resp'.status \in {403, 404} => events' = events /\ rooms' = rooms]_vars

\* C11 witness: an admin's deactivate_event of an event of another
\* establishment has been answered 403, the event still active.
C11_Witness ==
    /\ resp.op = "deactivate_event"
    /\ resp.status = 403
    /\ \E e \in events, a \in admins :
          /\ e.id = resp.arg[2]
          /\ a.id = resp.arg[1]
          /\ e.establishment_id # a.establishment_id
          /\ e.is_active

\* Every foreign key of every row names a row of the store.
RefIntegrity ==
    /\ \A a \in admins : a.establishment_id \in establishments
    /\ \A e \in events : e.establishment_id \in establishments
    /\ \A t \in tables : RoomById(t.room_id) # {}
    /\ \A u \in users : TableById(u.table_id) # {} /\ RoomById(u.room_id) # {}
    /\ \A n \in notes : /\ RoomById(n.room_id) # {}
                        /\ TableById(n.from_table_id) # {}
                        /\ TableById(n.to_table_id) # {}

\* C12: after a successful delete_establishment(E) the store holds neither E,
\* nor an admin or an event of E, nor a room with the code of an event of E,
\* nor a table, user or note of such a room, and every foreign key of every
\* remaining row names a remaining row.
C12_DeleteEstablishmentCascades ==
    [][(Answered("delete_establishment") /\ resp'.status = 200) =>
          LET E == resp'.arg[1]
              codes == {e.code : e \in {e \in events : e.establishment_id = E}}
              gone == {r.id : r \in {r \in rooms : r.event_code \in codes}}
          IN  /\ E \notin establishments'
              /\ \A a \in admins' : a.establishment_id # E
              /\ \A e \in events' : e.establishment_id # E
              /\ \A r \in rooms' : r.event_code \notin codes
              /\ \A t \in tables' : t.room_id \notin gone
              /\ \A u \in users' : u.room_id \notin gone
              /\ \A n \in notes' : n.room_id \notin gone
              /\ RefIntegrity']_vars

\* C12 witness: establishment 1, whose room held a user and a note, has been
\* deleted.
C12_Witness ==
    /\ resp.op = "delete_establishment"
    /\ resp.status = 200
    /\ nextId.user > 1
    /\ nextId.note > 1
    /\ users = {}
    /\ notes = {}

WellFormedCode(code) ==
    Len(code) = CODE_LEN /\ \A i \in 1..Len(code) : code[i] \in CodeAlphabet

\* C13: every code the generator returns is 6 characters of [A-Z0-9] and is
\* the code of no event in the store; an event is persisted only with a code
\* no event in the store has at that time; so no two events of the store
\* have the same code.
C13_CodesWellFormedAndUnique ==
    [][/\ \A w \in Workers :
             (reqs[w].pc = "ce_updated" /\ reqs'[w].pc = "ce_coded") =>
                /\ WellFormedCode(reqs'[w].code)
                /\ \A e \in events : e.code # reqs'[w].code
       /\ \A n \in events' :
             (\A e \in events : e.id # n.id) =>
                WellFormedCode(n.code) /\ \A e \in events : e.code # n.code
       /\ \A a \in events', b \in events' : a.code = b.code => a.id = b.id]_vars

\* C13 witness: two events created by concurrent requests are in the store,
\* the request of the second completed.
C13_Witness ==
    /\ Cardinality(events) = 2
    /\ \A w \in Workers : reqs[w].pc = "done"

\* C14: in every reachable state every room with the code of an event has
\* the is_active of that event.
C14_RoomMirrorsEvent ==
    \A e \in events : \A r \in rooms :
        r.event_code = e.code => r.is_active = e.is_active

\* C16: in every reachable state each event has exactly one room whose
\* event_code is the event's code.
C16_OneRoomPerEvent ==
    \A e \in events : Cardinality({r \in rooms : r.event_code = e.code}) = 1

\* The establishments that own a room: those of the events with its code.
EstOfRoom(r) == {e.establishment_id : e \in {e \in events : e.code = r.event_code}}

\* The establishments on whose behalf the request answered by r was made:
\* the caller's for an admin route, the target room's for activate_room.
OnBehalfOf(r) ==
    IF r.op \in {"create_event", "deactivate_event"}
    THEN {a.establishment_id : a \in {a \in admins : a.id = r.arg[1]}}
    ELSE IF r.op = "activate_room"
    THEN UNION {EstOfRoom(room) : room \in RoomById(r.arg[1])}
    ELSE {}

\* C18: a request changes the is_active of a room or of an event only if the
\* room or event belongs to the establishment on whose behalf it was made.
C18_ActivationScopedByEstablishment ==
    [][/\ \A r \in rooms, q \in rooms' :
             (q.id = r.id /\ q.is_active # r.is_active) =>
                EstOfRoom(r) \subseteq OnBehalfOf(resp')
       /\ \A e \in events, f \in events' :
             (f.id = e.id /\ f.is_active # e.is_active) =>
                e.establishment_id \in OnBehalfOf(resp')]_vars

\* C15: once create_event has superseded an event, the rooms of the
\* superseded event are inactive, and no send_note from a table of such a
\* room and no create_user at a table of such a room succeeds.
C15_SupersededRoomClosed ==
    \A e \in events : \A r \in rooms :
        (~e.is_active /\ e.id \notin deactivated /\ r.event_code = e.code) =>
            /\ ~r.is_active
            /\ (/\ resp.op \in {"create_note", "create_user"}
                /\ \E t \in tables : t.id = resp.arg[1] /\ t.room_id = r.id)
                  => resp.status # 200

\* C17: an event whose is_active is false keeps is_active false in every
\* later state.
C17_NoReactivation ==
    [][\A e \in events, f \in events' :
          (f.id = e.id /\ ~e.is_active) => ~f.is_active]_vars

\* C17 witness: an establishment's admin has created an event after the
\* establishment's earlier event was deactivated, and that one is inactive.
C17_Witness ==
    /\ resp.op = "create_event"
    /\ resp.status = 200
    /\ \E e \in events, f \in events :
          /\ f.id = resp.out
          /\ e.id \in deactivated
          /\ e.establishment_id = f.establishment_id
          /\ ~e.is_active

\* The establishment of the admin who made the request answered by r.
CallerEst(r) == {a.establishment_id : a \in {a \in admins : a.id = r.arg[1]}}

\* C19: create_event by an admin of establishment X leaves every event whose
\* establishment is not X, the events of no establishment among them, as
\* it was.
C19_CreateEventScopedToEstablishment ==
    [][Answered("create_event") =>
          \A e \in events : e.establishment_id \notin CallerEst(resp') => e \in events']_vars

\* C19 witness: an admin has created an event while another establishment
\* and no establishment each had an active event, both still active.
C19_Witness ==
    /\ resp.op = "create_event"
    /\ resp.status = 200
    /\ \E e \in events, f \in events :
          /\ e.establishment_id = 0 /\ e.is_active
          /\ f.establishment_id \notin {0} \cup CallerEst(resp) /\ f.is_active

\* C20: list_events of an admin of establishment X returns the events of X,
\* each once, and no other event, in decreasing order of creation time.
C20_ListEventsScopedNewestFirst ==
    [][(Answered("list_events") /\ resp'.status = 200) =>
          LET out == resp'.out
              mine == {e \in events : e.establishment_id \in CallerEst(resp')}
              row(i) == CHOOSE e \in events : e.id = out[i].id
          IN  /\ {out[i].id : i \in 1..Len(out)} = {e.id : e \in mine}
              /\ Len(out) = Cardinality(mine)
              /\ \A i \in 1..Len(out), j \in 1..Len(out) :
                    i < j => created_at(row(i)) > created_at(row(j))]_vars

\* C20 witness: a listing of two events has been returned while the store
\* holds an event that is not in it.
C20_Witness ==
    /\ resp.op = "list_events"
    /\ resp.status = 200
    /\ Len(resp.out) = 2
    /\ \E e \in events : \A i \in 1..Len(resp.out) : resp.out[i].id # e.id

\* C21: the status list_events and list_all_events report for an event is
\* 'active' exactly when the event is active and start_date <= now <=
\* end_date at the time of the listing, else 'expired'; a listing leaves the
\* store as it was.
C21_StatusComputedAtReadTime ==
    [][((Answered("list_events") \/ Answered("list_all_events")) /\ resp'.status = 200) =>
          /\ UNCHANGED store
          /\ \A i \in 1..Len(resp'.out) : \A e \in events : e.id = resp'.out[i].id =>
                resp'.out[i].status =
                    IF e.is_active /\ e.start_date <= now /\ now <= e.end_date
                    THEN "active" ELSE "expired"]_vars

\* C21 witness: a listing has reported 'expired' for an event that is active
\* and whose window has passed.
C21_Witness ==
    /\ resp.op = "list_events"
    /\ resp.status = 200
    /\ \E i \in 1..Len(resp.out) : \E e \in events :
          /\ e.id = resp.out[i].id
          /\ e.is_active
          /\ now > e.end_date
          /\ resp.out[i].status = "expired"

\* C22: create_event of an authenticated admin is answered 400 when
\* start >= end or number_of_tables < 1 or number_of_tables > 100, and a
\* create_event that fails leaves the store as it was.
C22_CreateEventValidates ==
    [][Answered("create_event") =>
          /\ (/\ resp'.status # 401
              /\ \/ resp'.arg[2] >= resp'.arg[3]
                 \/ resp'.arg[4] < 1
                 \/ resp'.arg[4] > 100) => resp'.status = 400
          /\ resp'.status # 200 => UNCHANGED store]_vars

\* C22 witness: a create_event with 101 tables has been answered 400 while
\* the caller's establishment has an active event.
C22_Witness ==
    /\ resp.op = "create_event"
    /\ resp.status = 400
    /\ resp.arg[4] = 101
    /\ \E e \in events : e.is_active /\ e.establishment_id \in CallerEst(resp)

TablesOf(room_id) == {t \in tables : t.room_id = room_id}

\* C24: a successful create_event with N tables leaves the new room with N
\* tables numbered 1..N; afterwards the tables of a room change in no step,
\* and a room goes away with its tables only by delete_establishment.
C24_TablesNumberedAndFrozen ==
    [][/\ (Answered("create_event") /\ resp'.status = 200) =>
             \E r \in rooms' :
                /\ RoomById(r.id) = {}
                /\ Cardinality(TablesOf(r.id)') = resp'.arg[4]
                /\ {t.number : t \in TablesOf(r.id)'} = 1..resp'.arg[4]
       /\ \A r \in rooms :
             IF \E q \in rooms' : q.id = r.id
             THEN TablesOf(r.id)' = TablesOf(r.id)
             ELSE Answered("delete_establishment")]_vars

\* C24 witness: the room of an event of two tables holds tables 1 and 2
\* after a deactivate_event of that event.
C24_Witness ==
    /\ resp.op = "deactivate_event"
    /\ resp.status = 200
    /\ \E e \in events, r \in rooms :
          /\ e.id = resp.arg[2]
          /\ e.number_of_tables = 2
          /\ r.event_code = e.code
          /\ {t.number : t \in TablesOf(r.id)} = {1, 2}

\* C25: every note of the store has from_table_id # to_table_id and both
\* its tables in the room its room_id names; a note new to the store has
\* status sent.
C25_NotesWellFormed ==
    [][/\ \A n \in notes' :
             /\ n.from_table_id # n.to_table_id
             /\ \E a \in tables', b \in tables' :
                   /\ a.id = n.from_table_id /\ a.room_id = n.room_id
                   /\ b.id = n.to_table_id /\ b.room_id = n.room_id
       /\ \A n \in notes' : (\A m \in notes : m.id # n.id) => n.status = SENT]_vars

\* C25 witness: a send has just persisted a note, next to a note accepted
\* before.
C25_Witness ==
    /\ resp.op = "create_note"
    /\ resp.status = 200
    /\ \E n \in notes, m \in notes :
          n.id = resp.out /\ n.status = SENT /\ m.status = ACCEPTED

\* C29: a send_note with a message of more than 140 characters is rejected
\* and persists no note; a valid send below the quota with a message of 1 to
\* 140 characters succeeds, and the note it persists carries the message as
\* it was sent.
C29_MessageLengthBounded ==
    [][Answered("create_note") =>
          LET m == resp'.arg[3]
          IN  /\ Len(m) > 140 => (resp'.status = 422 /\ notes' = notes)
              /\ (/\ Len(m) >= 1
                  /\ Len(m) <= 140
                  /\ ValidSend(resp'.arg[1], resp'.arg[2])
                  /\ sent_count(resp'.arg[1]) < MAX_NOTES_PER_USER) => resp'.status = 200
              /\ resp'.status = 200 =>
                    \E n \in notes' : n.id = resp'.out /\ n.message = m
              /\ \A n \in notes' : Len(n.message) >= 1 /\ Len(n.message) <= 140]_vars

\* C29 witness: a message of 141 characters has been rejected, a note with a
\* message of 140 characters being in the store.
C29_Witness ==
    /\ resp.op = "create_note"
    /\ resp.status = 422
    /\ Len(resp.arg[3]) = 141
    /\ \E n \in notes : Len(n.message) = 140

\* A listing answer holds exactly the notes of want, the newest first.
ListsExactly(out, want) ==
    /\ Len(out) = Cardinality(want)
    /\ {out[i] : i \in 1..Len(out)} = want
    /\ \A i \in 1..Len(out) : \A j \in 1..Len(out) :
          i < j => created_at(out[i]) > created_at(out[j])

\* C26: each note listing of table T fails with 404 when T does not exist,
\* and otherwise returns exactly, newest first: inbox = the notes to T with
\* status sent; accepted = the notes to T with status accepted; ignored = the
\* notes to T with status ignored; sent = the notes from T in any status.
C26_ListingsExact ==
    [][\A op \in {"get_table_notes", "get_accepted_notes", "get_ignored_notes",
                  "get_sent_notes"} :
          Answered(op) =>
             LET T == resp'.arg[1]
                 want == CASE op = "get_table_notes" ->
                                {n \in notes : n.to_table_id = T /\ n.status = "sent"}
                           [] op = "get_accepted_notes" ->
                                {n \in notes : n.to_table_id = T /\ n.status = "accepted"}
                           [] op = "get_ignored_notes" ->
                                {n \in notes : n.to_table_id = T /\ n.status = "ignored"}
                           [] op = "get_sent_notes" ->
                                {n \in notes : n.from_table_id = T}
             IN  /\ UNCHANGED store
                 /\ IF \E t \in tables : t.id = T
                    THEN resp'.status = 200 /\ ListsExactly(resp'.out, want)
                    ELSE resp'.status = 404]_vars

\* C26 witness: the inbox of a table has been listed with the sent note to
\* the table in it, while an older note to the table is answered and left out.
C26_Witness ==
    /\ resp.op = "get_table_notes"
    /\ resp.status = 200
    /\ Len(resp.out) = 1
    /\ \E n \in notes : /\ n.to_table_id = resp.arg[1]
                        /\ n.status # SENT
                        /\ n.id < resp.out[1].id

\* The state the scenario ends in: users at tables 1 and 2, and the one note
\* sent from table 1 to table 2 accepted.
ScenarioEnd ==
    /\ \E u \in users : u.table_id = 1
    /\ \E u \in users : u.table_id = 2
    /\ Cardinality(notes) = 1
    /\ \A n \in notes : n.from_table_id = 1 /\ n.to_table_id = 2 /\ n.status = ACCEPTED

\* C27: after an event whose window holds the present is created, users
\* join at tables 1 and 2, table 1 sends table 2 a note and the note is
\* accepted, the accepted list of table 2 is exactly that note and the inbox
\* of table 2 is without it; the accept itself moves the note from the inbox
\* of its receiver to the receiver's accepted list.
C27_AcceptedScenario ==
    [][/\ (Answered("accept_note") /\ resp'.status = 200) =>
            \E n \in notes :
               /\ n.id = resp'.arg[1]
               /\ n \in InboxOf(n.to_table_id)
               /\ InboxOf(n.to_table_id)' = InboxOf(n.to_table_id) \ {n}
               /\ AcceptedOf(n.to_table_id)' =
                     AcceptedOf(n.to_table_id) \cup {[n EXCEPT !.status = "accepted"]}
       /\ (Answered("get_accepted_notes") /\ resp'.arg[1] = 2 /\ ScenarioEnd) =>
             /\ resp'.status = 200
             /\ Len(resp'.out) = 1
             /\ resp'.out[1] \in notes
       /\ (Answered("get_table_notes") /\ resp'.arg[1] = 2 /\ ScenarioEnd) =>
             /\ resp'.status = 200
             /\ resp'.out = <<>>]_vars

\* C27 witness: the scenario has run to its end and the accepted list of
\* table 2 has been read.
C27_Witness ==
    /\ ScenarioEnd
    /\ resp.op = "get_accepted_notes"
    /\ resp.arg[1] = 2
    /\ Len(resp.out) = 1

\* C28: activate_room(r) on an existing room leaves r active and every other
\* room of the store inactive, adding and removing no room; on a room that
\* does not exist it answers 404 and changes no room; the room create_room
\* adds is inactive.
C28_ActivateRoomExclusive ==
    [][/\ Answered("activate_room") =>
             IF \E q \in rooms : q.id = resp'.arg[1]
             THEN /\ resp'.status = 200
                  /\ {q.id : q \in rooms'} = {q.id : q \in rooms}
                  /\ \A q \in rooms' : q.is_active <=> q.id = resp'.arg[1]
             ELSE resp'.status = 404 /\ rooms' = rooms
       /\ Answered("create_room") =>
             \E q \in rooms' : /\ q.id = resp'.out
                               /\ ~q.is_active
                               /\ q \notin rooms
                               /\ rooms' = rooms \cup {q}]_vars

\* C28 witness: a room made by create_room has been activated beside the
\* rooms of two events, which it leaves inactive.
C28_Witness ==
    /\ resp.op = "activate_room"
    /\ resp.status = 200
    /\ Cardinality(rooms) = 3
    /\ resp.arg[1] = 3
    /\ \E q \in rooms : q.id = 3 /\ q.is_active

\* C30: validate_event_code is case-insensitive: for every stored code c and
\* every re-casing c' of c, validating c' answers with an outcome (status,
\* detail and room) that validating c itself has in the same store at the
\* same time.
C30_ValidateCaseInsensitive ==
    [][Answered("validate_event_code") =>
          \A e \in events :
             resp'.arg[1] \in Recasings(e.code) =>
                \E room \in First({r \in rooms : r.event_code = e.code}) :
                   <<resp'.status, resp'.detail, resp'.out>> =
                      ValidateOutcome(e.code, room)]_vars

\* C30 witness: a code written in mixed case, which is no stored code as
\* written, has been validated and answered with its event's room.
C30_Witness ==
    /\ resp.op = "validate_event_code"
    /\ resp.status = 200
    /\ \E e \in events : /\ resp.arg[1] \in Recasings(e.code)
                         /\ resp.arg[1] # e.code
                         /\ resp.arg[1] # lower(e.code)
    /\ \E r \in rooms : r.id = resp.out /\ upper(resp.arg[1]) = r.event_code

\* C31: delete_admin_user removes the admin row and nothing else: every
\* establishment, event, room, table, user and note is left as it was, those
\* of the deleted admin's establishment included; for an admin that does not
\* exist it answers 404 and removes nothing.
C31_DeleteAdminRemovesOnlyAdmin ==
    [][Answered("delete_admin_user") =>
          /\ UNCHANGED <<establishments, events, rooms, tables, users, notes>>
          /\ admins' = {a \in admins : a.id # resp'.arg[1]}
          /\ resp'.status = IF \E a \in admins : a.id = resp'.arg[1] THEN 200 ELSE 404]_vars

\* C31 witness: an admin has been deleted whose establishment keeps its
\* event, room, tables, a user and a note, and has no admin left.
C31_Witness ==
    /\ resp.op = "delete_admin_user"
    /\ resp.status = 200
    /\ \E e \in events : /\ e.establishment_id \in establishments
                         /\ \A a \in admins : a.establishment_id # e.establishment_id
                         /\ \E r \in rooms : r.event_code = e.code
    /\ tables # {}
    /\ users # {}
    /\ notes # {}

\* C32: of concurrent accept and ignore calls on one note at most one
\* succeeds: no two requests that have completed on the same note have both
\* been answered 200.
C32_OneResponseSucceeds ==
    \A v \in Workers, w \in Workers :
       (/\ v # w
        /\ reqs[v].pc = "done"
        /\ reqs[w].pc = "done"
        /\ reqs[v].note_id = reqs[w].note_id
        /\ reqs[v].op # reqs[w].op)
       => ~(reqs[v].status = 200 /\ reqs[w].status = 200)

\* No row the deletion of worker w has left in place references a row it
\* has deleted.
NoDangling(w) ==
    LET g == reqs[w].gone
        gone_rooms == {q.id : q \in g.rooms}
        gone_tables == {t.id : t \in g.tables}
    IN  /\ \A n \in notes \ g.notes : /\ n.room_id \notin gone_rooms
                                      /\ n.from_table_id \notin gone_tables
                                      /\ n.to_table_id \notin gone_tables
        /\ \A u \in users \ g.users : /\ u.room_id \notin gone_rooms
                                      /\ u.table_id \notin gone_tables
        /\ \A t \in tables \ g.tables : t.room_id \notin gone_rooms
        /\ \A q \in rooms \ g.rooms : \A e \in g.events : e.code # q.event_code
        /\ reqs[w].est_id \in establishments

\* C33: delete_establishment deletes deepest-owned first: after each of its
\* statements no row it has left in place references a row it has deleted
\* (notes and users go before their tables, tables before their room, rooms
\* before their event, events and admins before the establishment); and the
\* deletions become visible together: the committed store changes only at
\* the commit, where every deleted row and the establishment go at once and
\* leave no dangling reference.
C33_DeletesDeepestFirst ==
    [][/\ \A w \in Workers : Deleting(w)' => NoDangling(w)'
       /\ store' # store =>
             \E w \in Workers :
                /\ reqs[w].pc = "de_est"
                /\ reqs'[w].pc = "done"
                /\ notes' = notes \ reqs[w].gone.notes
                /\ users' = users \ reqs[w].gone.users
                /\ tables' = tables \ reqs[w].gone.tables
                /\ rooms' = rooms \ reqs[w].gone.rooms
                /\ events' = {e \in events : e.establishment_id # reqs[w].est_id}
                /\ admins' = {a \in admins : a.establishment_id # reqs[w].est_id}
                /\ establishments' = establishments \ {reqs[w].est_id}
                /\ RefIntegrity']_vars

\* C33 witness: a deletion has deleted notes, a user, tables, a room, an
\* event and an admin and has not committed: the store still holds them all.
C33_Witness ==
    \E w \in Workers :
       /\ reqs[w].pc = "de_est"
       /\ reqs[w].gone.notes # {} /\ reqs[w].gone.notes \subseteq notes
       /\ reqs[w].gone.users # {} /\ reqs[w].gone.users \subseteq users
       /\ reqs[w].gone.tables # {} /\ reqs[w].gone.tables \subseteq tables
       /\ reqs[w].gone.rooms # {} /\ reqs[w].gone.rooms \subseteq rooms
       /\ reqs[w].gone.events # {} /\ reqs[w].gone.events \subseteq events
       /\ reqs[w].gone.admins # {} /\ reqs[w].gone.admins \subseteq admins

\* The notes table T has sent, whatever has become of them.
EverSentBy(T) == {n \in notes : n.from_table_id = T}

\* C34: the quota counts every note a table has sent, in any status: a table
\* that has sent MAX_NOTES_PER_USER notes is refused every further send,
\* which persists nothing, however many of its notes have been accepted or
\* ignored; accept_note and ignore_note leave every table's count as it is,
\* and no step but a delete_establishment lowers the count of a table.
C34_LifetimeQuota ==
    [][/\ Answered("create_note") =>
             (Cardinality(EverSentBy(resp'.arg[1])) >= MAX_NOTES_PER_USER =>
                 resp'.status # 200 /\ notes' = notes)
       /\ (Answered("accept_note") \/ Answered("ignore_note")) =>
             \A t \in tables :
                {n.id : n \in EverSentBy(t.id)'} = {n.id : n \in EverSentBy(t.id)}
       /\ ~Answered("delete_establishment") =>
             \A t \in tables :
                Cardinality(EverSentBy(t.id)') >= Cardinality(EverSentBy(t.id))]_vars

\* C34 witness: a table whose notes have all been answered, none of them
\* still sent, has been refused a further send with 429.
C34_Witness ==
    /\ resp.op = "create_note"
    /\ resp.status = 429
    /\ Cardinality(EverSentBy(resp.arg[1])) = MAX_NOTES_PER_USER
    /\ \A n \in EverSentBy(resp.arg[1]) : n.status # SENT
    /\ \E n \in EverSentBy(resp.arg[1]) : n.status = ACCEPTED
    /\ \E n \in EverSentBy(resp.arg[1]) : n.status = IGNORED

\* C35: every create_event call completes: a request in flight is in time
\* answered (with its event, or with the error of a commit), unless it is in
\* the generator's loop and every code is the code of an event.
C35_CreateEventCompletes ==
    \A w \in Workers :
       (~Free(w)) ~> (Free(w) \/ \A c \in Codes : \E e \in events : e.code = c)

\* C35 witness: the generator's loop has gone round on a code an event has
\* and has then returned another code.
C35_Witness ==
    \E w \in Workers :
       /\ reqs[w].pc = "ce_coded"
       /\ "rejected" \in DOMAIN reqs[w]
       /\ \E e \in events : e.code = reqs[w].rejected
       /\ \A e \in events : e.code # reqs[w].code

\* C36: no two admins have one username, and a create_admin_user or
\* update_admin_user whose username another admin has when the request
\* completes is answered 400 and changes no admin, however the requests
\* interleave.
C36_UsernameUniqueOr400 ==
    [][/\ \A a \in admins', b \in admins' : a.username = b.username => a.id = b.id
       /\ \A w \in Workers :
             (/\ reqs[w].pc \in {"ca_checked", "ua_checked"}
              /\ reqs'[w].pc = "done"
              /\ \E a \in admins :
                    /\ a.username = reqs[w].username
                    /\ reqs[w].pc = "ua_checked" => a.id # reqs[w].admin_id)
             => (reqs'[w].status = 400 /\ admins' = admins)]_vars

\* The rules a send from table F to table T breaks, by their rank in the
\* order the spec gives: 1 a table is missing, 2 the sender's room is not
\* active, 3 the tables are in different rooms, 4 the tables are the same,
\* 5 the sender is at its quota.  Ranks 2 to 5 are read only when both
\* tables exist.
RulesBroken(F, T) ==
    LET both == (\E t \in tables : t.id = F) /\ (\E t \in tables : t.id = T)
        rF == (CHOOSE t \in tables : t.id = F).room_id
        rT == (CHOOSE t \in tables : t.id = T).room_id
    IN  {k \in 1..5 :
            CASE k = 1 -> ~both
              [] k = 2 -> both /\ ~\E r \in rooms : r.id = rF /\ r.is_active
              [] k = 3 -> both /\ rF # rT
              [] k = 4 -> both /\ F = T
              [] k = 5 -> both /\ Cardinality({n \in notes : n.from_table_id = F})
                                     >= MAX_NOTES_PER_USER}

\* The status each rule is reported with.
RuleStatus == <<404, 403, 400, 400, 429>>

\* C37: send_note reports the first rule it breaks in the order missing
\* table (404), inactive sender room (403), different rooms (400), same table
\* (400), quota (429), and succeeds when it breaks none; whether the
\* receiver's room is active changes nothing.
C37_FailurePrecedence ==
    [][(Answered("create_note") /\ Len(resp'.arg[3]) \in 1..140) =>
          LET broken == RulesBroken(resp'.arg[1], resp'.arg[2])
          IN  IF broken = {} THEN resp'.status = 200
              ELSE /\ resp'.status =
                         RuleStatus[CHOOSE k \in broken : \A j \in broken : k <= j]
                   /\ notes' = notes]_vars

\* C37 witness: a send from a table at its quota, in a room that is not
\* active, to a table of another room, has been answered 403.
C37_Witness ==
    /\ resp.op = "create_note"
    /\ resp.status = 403
    /\ RulesBroken(resp.arg[1], resp.arg[2]) = {2, 3, 5}

\* C38: an update_admin_user that moves an admin from establishment X to
\* establishment Y gives every event of X to Y, changes no other field of any
\* event, and leaves Y with at most one active event.
C38_MoveKeepsOneActive ==
    [][(Answered("update_admin_user") /\ resp'.status = 200) =>
          \A a \in admins :
             (a.id = resp'.arg[1] /\ resp'.arg[3] # 0
                                  /\ resp'.arg[3] # a.establishment_id) =>
                LET X == a.establishment_id
                    Y == resp'.arg[3]
                IN  /\ events' = {IF e.establishment_id = X
                                  THEN [e EXCEPT !.establishment_id = Y] ELSE e
                                  : e \in events}
                    /\ Cardinality({e \in events' :
                                       e.establishment_id = Y /\ e.is_active}) <= 1]_vars

\* C39: a token authorizes create_event, list_events and deactivate_event
\* only while its admin's row exists with the establishment of the token:
\* once the admin is deleted, or moved to another establishment, a request
\* with the token is answered 401 and changes nothing; while the row matches
\* the token the request is not answered 401.
C39_TokenFollowsAdminRow ==
    [][\A op \in {"create_event", "list_events", "deactivate_event"} :
          Answered(op) =>
             \A tok \in IssuedTokens :
                tok.admin_id = resp'.arg[1] =>
                   IF \E a \in admins : /\ a.id = tok.admin_id
                                        /\ a.establishment_id = tok.establishment_id
                   THEN resp'.status # 401
                   ELSE resp'.status = 401 /\ UNCHANGED store]_vars

\* C39 witness: an admin moved to the other establishment, where events
\* exist, has used the token of its login for create_event and got 401.
C39_Witness ==
    /\ resp.op = "create_event"
    /\ resp.status = 401
    /\ \E a \in admins : /\ a.id = resp.arg[1]
                         /\ [admin_id |-> a.id, establishment_id |-> a.establishment_id]
                               \notin IssuedTokens
    /\ events # {}

\* C40: delete_establishment(E) removes rows and writes none, and every row
\* it removes descends from E: E itself, an admin or event of E, a room with
\* the code of an event of E, a table, user or note of such a room; every
\* other row is left as it was.  When E does not exist it answers 404 and
\* changes nothing.
C40_DeleteTouchesOnlyDescendants ==
    [][Answered("delete_establishment") =>
          LET E == resp'.arg[1]
              codes == {e.code : e \in {e \in events : e.establishment_id = E}}
              own == {r.id : r \in {r \in rooms : r.event_code \in codes}}
          IN  IF E \in establishments
              THEN /\ resp'.status = 200
                   /\ establishments \ {E} \subseteq establishments'
                   /\ establishments' \subseteq establishments
                   /\ {a \in admins : a.establishment_id # E} \subseteq admins'
                   /\ admins' \subseteq admins
                   /\ {e \in events : e.establishment_id # E} \subseteq events'
                   /\ events' \subseteq events
                   /\ {r \in rooms : r.id \notin own} \subseteq rooms'
                   /\ rooms' \subseteq rooms
                   /\ {t \in tables : t.room_id \notin own} \subseteq tables'
                   /\ tables' \subseteq tables
                   /\ {u \in users : u.room_id \notin own} \subseteq users'
                   /\ users' \subseteq users
                   /\ {n \in notes : n.room_id \notin own} \subseteq notes'
                   /\ notes' \subseteq notes
              ELSE resp'.status = 404 /\ UNCHANGED store]_vars

\* C40 witness: establishment 2 has been deleted with its admin, event, room
\* and table, and the event, rooms, tables, user and notes of establishment 1
\* are in the store.
C40_Witness ==
    /\ resp.op = "delete_establishment"
    /\ resp.status = 200
    /\ resp.arg[1] = 2
    /\ establishments = {1}
    /\ Cardinality(events) = 1
    /\ Cardinality(rooms) = 2
    /\ tables = NewTables(1, 1, 2)
    /\ users # {}
    /\ notes # {}
    /\ \E n \in notes : n.status = ACCEPTED

=============================================================================
